---- MODULE Spec2Model ----
(***************************************************************************)
(* Verification model of the meshenger bot core (src/src/bot):             *)
(*   - the chunker (outgoing.rs, chunk_message), run step by step,         *)
(*   - the sliding-window rate limiter (rate_limit.rs),                    *)
(*   - the outgoing queue and queue_responses (outgoing.rs),               *)
(*   - the event loop with its grace and send timers (runtime.rs,          *)
(*     incoming.rs, events.rs, startup_state.rs).                          *)
(* Strings are sequences of UTF-8 bytes, Option<T> is a sequence of        *)
(* length 0 (None) or 1 (Some), time is a count of ticks.                  *)
(***************************************************************************)
EXTENDS Integers, Sequences, FiniteSets, TLC

\* ------------------------------------------------------------------------
\* Bounds of the model
\* ------------------------------------------------------------------------
\* longest text, in codepoints, handed to the chunker
MaxTextChars == 4
\* largest byte budget (max_len) handed to the chunker
MaxBudget == 5
\* largest rate_limit_commands and rate_limit_window_secs of the rate limiter
MaxRateCommands == 2
MaxRateWindow == 2
\* last tick of the rate limiter's clock, and the number of check calls
MaxRateTime == 3
MaxRateCalls == 4
\* largest max_message_len, longest response list, most pushes onto the queue
MaxMessageLen == 2
MaxResponses == 2
MaxPushed == 3
\* the event loop: config.bot.startup_grace_secs and config.bot.send_delay_ms
\* in clock ticks, the last tick of the clock, the connections made, the
\* NodeInfo frames of one connection, the messages the bridges hand over
StartupGrace == 1
SendDelay == 1
MaxLoopTime == 2
MaxConnections == 2
MaxRx == 2
MaxBridged == 1
\* the polls of a closed bridge channel on one connection
MaxBridgeNone == 2

\* ------------------------------------------------------------------------
\* Option<T>
\* ------------------------------------------------------------------------
None == <<>>
Some(x) == <<x>>

RECURSIVE SeqsUpTo(_, _)
\* all sequences over S of length at most n
SeqsUpTo(S, n) ==
    IF n = 0 THEN {<<>>}
    ELSE LET shorter == SeqsUpTo(S, n - 1)
         IN  shorter \cup {Append(q, x) : q \in {r \in shorter : Len(r) = n - 1}, x \in S}

\* ------------------------------------------------------------------------
\* UTF-8 strings as byte sequences
\* ------------------------------------------------------------------------
\* the codepoints texts are drawn from: 'a', '\n', '\r', U+00E9 (2 bytes),
\* U+1F600 (4 bytes)
CodePoints == {97, 10, 13, 233, 128512}

LF == 10
CR == 13

\* char::encode_utf8: the bytes of one codepoint
EncodeUtf8(c) ==
    IF c < 128 THEN <<c>>
    ELSE IF c < 2048 THEN <<192 + (c \div 64), 128 + (c % 64)>>
    ELSE IF c < 65536 THEN
        <<224 + (c \div 4096), 128 + ((c \div 64) % 64), 128 + (c % 64)>>
    ELSE <<240 + (c \div 262144), 128 + ((c \div 4096) % 64),
           128 + ((c \div 64) % 64), 128 + (c % 64)>>

RECURSIVE EncodeStr(_)
\* a String built from a sequence of codepoints
EncodeStr(cps) ==
    IF cps = <<>> THEN <<>> ELSE EncodeUtf8(Head(cps)) \o EncodeStr(Tail(cps))

\* width of the codepoint that starts with lead byte b (char_indices / len_utf8)
len_utf8(b) ==
    IF b < 128 THEN 1 ELSE IF b < 224 THEN 2 ELSE IF b < 240 THEN 3 ELSE 4

\* a UTF-8 continuation byte, 10xxxxxx
IsContinuation(b) == b >= 128 /\ b < 192

RECURSIVE Concat(_)
\* Vec<String>::concat
Concat(ss) == IF ss = <<>> THEN <<>> ELSE Head(ss) \o Concat(Tail(ss))

\* str::lines: split_inclusive('\n'), then strip the "\n" and a "\r" before it
StripLineEnd(piece) ==
    IF piece # <<>> /\ piece[Len(piece)] = LF
    THEN LET l == SubSeq(piece, 1, Len(piece) - 1)
         IN  IF l # <<>> /\ l[Len(l)] = CR THEN SubSeq(l, 1, Len(l) - 1) ELSE l
    ELSE piece

RECURSIVE LinesScan(_, _, _)
LinesScan(text, i, piece) ==
    IF i > Len(text)
    THEN IF piece = <<>> THEN <<>> ELSE <<StripLineEnd(piece)>>
    ELSE IF text[i] = LF
         THEN <<StripLineEnd(Append(piece, LF))>> \o LinesScan(text, i + 1, <<>>)
         ELSE LinesScan(text, i + 1, Append(piece, text[i]))

Lines(text) == LinesScan(text, 1, <<>>)

\* ------------------------------------------------------------------------
\* chunk_message and split_utf8_by_max_bytes
\* ------------------------------------------------------------------------
RECURSIVE CutLoop(_, _, _, _)
\* the for loop over remaining.char_indices(): the largest char end <= max_len
CutLoop(remaining, idx, cut, max_len) ==
    IF idx >= Len(remaining) THEN cut
    ELSE LET next == idx + len_utf8(remaining[idx + 1])
         IN  IF next > max_len THEN cut
             ELSE CutLoop(remaining, next, next, max_len)

\* a cut at max_len bytes, whatever the codepoint boundaries
SplitIterByteCut(s, start, out, max_len) ==
    LET remaining == SubSeq(s, start + 1, Len(s))
    IN  IF Len(remaining) <= max_len
        THEN [out |-> Append(out, remaining), start |-> start, brk |-> TRUE]
        ELSE [out |-> Append(out, SubSeq(remaining, 1, max_len)),
              start |-> start + max_len, brk |-> FALSE]

\* no progress fallback: a first codepoint wider than max_len ends the loop
SplitIterNoFallback(s, start, out, max_len) ==
    LET remaining == SubSeq(s, start + 1, Len(s))
        cut == CutLoop(remaining, 0, 0, max_len)
    IN  IF Len(remaining) <= max_len
        THEN [out |-> Append(out, remaining), start |-> start, brk |-> TRUE]
        ELSE IF cut = 0
             THEN [out |-> out, start |-> start, brk |-> TRUE]
             ELSE [out |-> Append(out, SubSeq(remaining, 1, cut)),
                   start |-> start + cut, brk |-> FALSE]

\* one iteration of `while start < s.len()` in split_utf8_by_max_bytes
SplitIter(s, start, out, max_len) ==
    LET remaining == SubSeq(s, start + 1, Len(s))
        cut0 == CutLoop(remaining, 0, 0, max_len)
        \* remaining is not empty here, so chars().next() is Some
        cut == IF cut0 = 0 THEN len_utf8(remaining[1]) ELSE cut0
    IN  IF Len(remaining) <= max_len
        THEN [out |-> Append(out, remaining), start |-> start, brk |-> TRUE]
        ELSE [out |-> Append(out, SubSeq(remaining, 1, cut)),
              start |-> start + cut, brk |-> FALSE]

RECURSIVE SplitLoop(_, _, _, _)
SplitLoop(s, start, out, max_len) ==
    IF ~(start < Len(s)) THEN out
    ELSE LET r == SplitIter(s, start, out, max_len)
         IN  IF r.brk THEN r.out ELSE SplitLoop(s, r.start, r.out, max_len)

split_utf8_by_max_bytes(s, max_len) == SplitLoop(s, 0, <<>>, max_len)

\* the flush keeps the buffer: the next line is appended to a flushed chunk
FlushKeepsCurrent(st, line, max_len) ==
    IF st.current # <<>> /\ Len(st.current) + 1 + Len(line) > max_len
    THEN [chunks |-> Append(st.chunks, st.current), current |-> st.current]
    ELSE st

\* "if adding this line would exceed limit, flush current chunk"
FlushIfOver(st, line, max_len) ==
    IF st.current # <<>> /\ Len(st.current) + 1 + Len(line) > max_len
    THEN [chunks |-> Append(st.chunks, st.current), current |-> <<>>]
    ELSE st

\* the flush in front of a line that is split
FlushBeforeSplit(st) ==
    IF st.current # <<>>
    THEN [chunks |-> Append(st.chunks, st.current), current |-> <<>>]
    ELSE st

\* the last piece of a split line is not kept as current
TakeLineChunksDropLast(st, line_chunks) ==
    IF line_chunks # <<>>
    THEN [chunks |-> st.chunks \o SubSeq(line_chunks, 1, Len(line_chunks) - 1),
          current |-> <<>>]
    ELSE st

\* the pieces of a split line: all but the last are chunks, the last is current
TakeLineChunks(st, line_chunks) ==
    IF line_chunks # <<>>
    THEN [chunks |-> st.chunks \o SubSeq(line_chunks, 1, Len(line_chunks) - 1),
          current |-> line_chunks[Len(line_chunks)]]
    ELSE st

\* a line that fits is appended to current, after a '\n' if current is not empty
AppendLine(st, line) ==
    [chunks |-> st.chunks,
     current |-> (IF st.current # <<>> THEN Append(st.current, LF)
                  ELSE st.current) \o line]

\* the body of `for line in text.lines()`
ProcessLine(st, line, max_len) ==
    LET st1 == FlushIfOver(st, line, max_len)
    IN  IF Len(line) > max_len
        THEN TakeLineChunks(FlushBeforeSplit(st1),
                            split_utf8_by_max_bytes(line, max_len))
        ELSE AppendLine(st1, line)

RECURSIVE LinesLoop(_, _, _)
LinesLoop(st, lines, max_len) ==
    IF lines = <<>> THEN st
    ELSE LinesLoop(ProcessLine(st, Head(lines), max_len), Tail(lines), max_len)

\* the final push of a non-empty current
FinishChunks(st) ==
    IF st.current # <<>> THEN Append(st.chunks, st.current) ELSE st.chunks

\* a budget of 0 is treated as a budget of 1
ChunkZeroAsOne(text, max_len) ==
    LET m == IF max_len = 0 THEN 1 ELSE max_len
    IN  IF Len(text) <= m THEN <<text>>
        ELSE FinishChunks(
                 LinesLoop([chunks |-> <<>>, current |-> <<>>], Lines(text), m))

\* chunk_message as a function of its arguments
chunk_message(text, max_len) ==
    IF max_len = 0 THEN <<>>
    ELSE IF Len(text) <= max_len THEN <<text>>
    ELSE FinishChunks(
             LinesLoop([chunks |-> <<>>, current |-> <<>>], Lines(text), max_len))

\* ------------------------------------------------------------------------
\* State
\* ------------------------------------------------------------------------
VARIABLES
    \* chunk_message, run step by step
    c_pc,       \* "entry", "lines", "split", "split_done", "done"
    c_text,     \* the argument text
    c_max,      \* the argument max_len
    c_lines,    \* what the iterator text.lines() still has to yield
    c_st,       \* [chunks, current]
    c_start,    \* split_utf8_by_max_bytes: start
    c_out,      \* split_utf8_by_max_bytes: out
    c_result,   \* the returned Vec<String>
    \* RateLimiter
    r_max,      \* max_commands
    r_window,   \* window_secs
    r_commands, \* commands: node id -> Vec<Instant>
    r_now,      \* the monotonic clock read by Instant::now()
    r_calls,    \* history: every call of check, [node, at, admitted]
    \* Bot: configuration, local node, outgoing queue
    cfg_max_message_len, \* config.bot.max_message_len
    local_node_id,   \* the local node id learned from MyInfo
    outgoing,        \* OutgoingQueue: [queue, depth] and the history log
    q_popped,        \* history: the messages popped so far
    q_last_pop,      \* history: what the last pop returned
    q_offered,       \* history: queue_responses was given a response with a
                     \* valid channel
    q_call,          \* history: the arguments of the last call of
                     \* queue_responses made on behalf of a packet,
                     \* [ctx, responses, call]
    \* Bot::run and Bot::event_loop
    clock,             \* the monotonic clock, in ticks
    l_pc,              \* "reconnecting" (in run, outside event_loop) or "loop"
    startup_state,     \* StartupState: [connected_at, deferred_events]
    db_nodes,          \* the node ids of the rows of the nodes table
    grace_timer,       \* the deadline of grace_timer
    grace_period_done, \* event_loop's local grace_period_done
    send_timer,        \* the deadline of send_timer
    bridge_active,     \* event_loop's local bridge_active
    l_conn,            \* history: [id, at] of the last entry into event_loop
    l_rx,              \* history: the NodeInfo frames of this connection, [node, grace]
    l_trace,           \* history: the dispatches and upserts of the last handler
    l_last_send,       \* history: the last radio send, [at, conn]
    \* Bot::handle_text_message and the mesh-to-bridge channel
    bridge_tx,         \* BridgeState::tx: None, or the number of receivers
                       \* subscribed to the broadcast channel
    mesh_to_bridge,    \* the MeshBridgeMessages sent on the channel
    t_last,            \* history: the last text packet handled,
                       \* [packet, sent]
    \* select_probe_target_adaptive, run window by window
    p_pc,              \* "loop" (at the head of for &limit), "exit" (after
                       \* the loop), "done" (returned)
    p_store,           \* the eligible nodes of the store, last seen first
    p_cooling,         \* the nodes for which can_send is false
    p_next,            \* the index in limits of the next limit
    p_st,              \* the locals [seen, cooldown_skipped, queried_limits,
                       \* had_candidates]
    p_result,          \* the returned ProbeSelection
    p_queries,         \* history: the calls of fetch_candidates, [limit, rows]
    p_checks,          \* history: the calls of can_send, in order
    \* Db: the traceroute tables, and the packets that feed them
    tr_clock,          \* Utc::now().timestamp()
    tr_ticks,          \* the advances of the clock so far
    db_packets,        \* the number of rows of the packets table
    db_sessions,       \* the rows of traceroute_sessions, by row id
    db_hops,           \* the rows of traceroute_session_hops, by row id
    tr_log             \* history: the observations logged or the packets
                       \* handled, each with its time

chunkVars == <<c_pc, c_text, c_max, c_lines, c_st, c_start, c_out, c_result>>

rateVars == <<r_max, r_window, r_commands, r_now, r_calls>>

queueVars == <<cfg_max_message_len, local_node_id, outgoing, q_popped, q_last_pop,
      q_offered, q_call>>

loopVars ==
    <<clock, l_pc, startup_state, db_nodes, grace_timer, grace_period_done,
      send_timer, bridge_active, l_conn, l_rx, l_trace, l_last_send>>

textVars == <<bridge_tx, mesh_to_bridge, t_last>>

probeVars == <<p_pc, p_store, p_cooling, p_next, p_st, p_result, p_queries, p_checks>>

traceVars == <<tr_clock, tr_ticks, db_packets, db_sessions, db_hops, tr_log>>

\* the values of the chunker's variables while another part is checked
ChunkIdle ==
    /\ c_pc = "idle"
    /\ c_text = <<>>
    /\ c_max = 0
    /\ c_lines = <<>>
    /\ c_st = [chunks |-> <<>>, current |-> <<>>]
    /\ c_start = 0
    /\ c_out = <<>>
    /\ c_result = <<>>

\* the values of the rate limiter's variables while another part is checked
RateIdle ==
    /\ r_max = 0
    /\ r_window = 0
    /\ r_commands = <<>>
    /\ r_now = 0
    /\ r_calls = <<>>

\* the values of the queue's variables while another part is checked
QueueIdle ==
    /\ cfg_max_message_len = 0
    /\ local_node_id = 0
    /\ outgoing = [queue |-> <<>>, depth |-> 0, log |-> <<>>]
    /\ q_popped = <<>>
    /\ q_last_pop = <<>>
    /\ q_offered = FALSE
    /\ q_call = <<>>


\* the values of the event loop's variables while another part is checked
LoopIdle ==
    /\ clock = 0
    /\ l_pc = "idle"
    /\ startup_state = [connected_at |-> <<>>, deferred_events |-> <<>>]
    /\ db_nodes = {}
    /\ grace_timer = 0
    /\ grace_period_done = FALSE
    /\ send_timer = 0
    /\ bridge_active = FALSE
    /\ l_conn = [id |-> 0, at |-> 0]
    /\ l_rx = <<>>
    /\ l_trace = <<>>
    /\ l_last_send = <<>>

\* the values of the text handler's variables while another part is checked
TextIdle ==
    /\ bridge_tx = <<>>
    /\ mesh_to_bridge = <<>>
    /\ t_last = <<>>

\* the values of the probe selector's variables while another part is checked
ProbeIdle ==
    /\ p_pc = "idle"
    /\ p_store = <<>>
    /\ p_cooling = {}
    /\ p_next = 0
    /\ p_st = <<>>
    /\ p_result = <<>>
    /\ p_queries = <<>>
    /\ p_checks = <<>>

\* the values of the traceroute tables while another part is checked
TraceIdle ==
    /\ tr_clock = 0
    /\ tr_ticks = 0
    /\ db_packets = 0
    /\ db_sessions = <<>>
    /\ db_hops = <<>>
    /\ tr_log = <<>>

\* the outgoing queue statement by statement: the deque under its mutex, the
\* shared depth counter, the statement the bot task is at with the message
\* it popped, the loads of the dashboard task (history), and the calls made
VARIABLES dq_queue, dq_depth, dq_pc, dq_msg, dq_seen, dq_calls
depthVars == <<dq_queue, dq_depth, dq_pc, dq_msg, dq_seen, dq_calls>>

\* the values of these while another part is checked
DepthIdle ==
    /\ dq_queue = <<>>
    /\ dq_depth = 0
    /\ dq_pc = "idle"
    /\ dq_msg = <<>>
    /\ dq_seen = <<>>
    /\ dq_calls = 0

\* Bot::run: the statement it is at, reconnect_delay_secs, the seconds slept
\* so far, the result of the last call of connect_and_run, the calls made
\* (counted up to a bound), the node id stored, and the frames skipped while
\* waiting for MyInfo
VARIABLES run_pc, run_delay, run_slept, run_last, run_calls, run_node, run_skipped
runVars == <<run_pc, run_delay, run_slept, run_last, run_calls, run_node, run_skipped>>

\* the values of these while another part is checked
RunIdle ==
    /\ run_pc = "idle"
    /\ run_delay = 0
    /\ run_slept = 0
    /\ run_last = <<>>
    /\ run_calls = 0
    /\ run_node = 0
    /\ run_skipped = 0

\* the command dispatcher: the registry of the bot, the calls of
\* handle_command made (history), the last call of
\* dispatch_command_from_text with the state it found (history), and the
\* number of calls
VARIABLES dsp_registry, dsp_invoked, dsp_last, dsp_calls
dispatchVars == <<dsp_registry, dsp_invoked, dsp_last, dsp_calls>>

\* the values of these while another part is checked
DispatchIdle ==
    /\ dsp_registry = <<>>
    /\ dsp_invoked = <<>>
    /\ dsp_last = <<>>
    /\ dsp_calls = 0

VARIABLES
    \* the traceroute probe timer over the connections of one bot
    tc_now,            \* Instant::now(), in seconds
    tc_cfg,            \* config.traceroute_probe
    traceroute,        \* Bot::traceroute: last_sent, node to instant
    tc_conn,           \* the number of the connection
    tc_probes,         \* history: the probes queued, with their instants
    tc_marks           \* history: the calls of mark_sent, with their instants

cooldownVars == <<tc_now, tc_cfg, traceroute, tc_conn, tc_probes, tc_marks>>

\* the values of the probe timer's variables while another part is checked
CooldownIdle ==
    /\ tc_now = 0
    /\ tc_cfg = <<>>
    /\ traceroute = <<>>
    /\ tc_conn = 0
    /\ tc_probes = <<>>
    /\ tc_marks = <<>>

VARIABLES
    \* handle_mesh_packet on the packets of the other ports
    db_positions,      \* nodes table: latitude and longitude of each row
    in_last            \* history: the last packet handled, and its row id

incomingVars == <<db_positions, in_last>>

\* the values of the packet handler's variables while another part is checked
IncomingIdle ==
    /\ db_positions = <<>>
    /\ in_last = <<>>

VARIABLES
    \* Bot::traceroute_session_key on one triple
    key_args,          \* src_node, dst_node, request_mesh_id
    key_result         \* the key returned

keyVars == <<key_args, key_result>>

\* the values of the key's variables while another part is checked
KeyIdle ==
    /\ key_args = <<>>
    /\ key_result = <<>>

VARIABLES
    \* the bridge branch of the event loop
    l_bridge_none,     \* history: the times recv gave None on this connection
    l_send_results     \* history: whether each radio send was Ok

pollVars == <<l_bridge_none, l_send_results>>

\* no recv of the bridge channel has given None, nothing was sent
PollIdle ==
    /\ l_bridge_none = 0
    /\ l_send_results = <<>>
\* ------------------------------------------------------------------------
\* chunk_message, step by step
\* ------------------------------------------------------------------------
\* the texts handed to the chunker
Texts == {EncodeStr(cps) : cps \in SeqsUpTo(CodePoints, MaxTextChars)}

ChunkInit ==
    /\ c_pc = "entry"
    /\ c_text \in Texts
    /\ c_max \in 0..MaxBudget
    /\ c_lines = <<>>
    /\ c_st = [chunks |-> <<>>, current |-> <<>>]
    /\ c_start = 0
    /\ c_out = <<>>
    /\ c_result = <<>>

\* lines 246-255: the two early returns, then the set-up of the line loop
ChunkEntry ==
    /\ c_pc = "entry"
    /\ IF c_max = 0 \/ Len(c_text) <= c_max
       THEN /\ c_result' = chunk_message(c_text, c_max)
            /\ c_pc' = "done"
            /\ UNCHANGED c_lines
       ELSE /\ c_lines' = Lines(c_text)
            /\ c_pc' = "lines"
            /\ UNCHANGED c_result
    /\ UNCHANGED <<c_text, c_max, c_st, c_start, c_out>>
    /\ UNCHANGED <<rateVars, queueVars, loopVars, textVars, probeVars, traceVars, depthVars, runVars, dispatchVars, cooldownVars, incomingVars, keyVars, pollVars>>

\* lines 293-318: one line of the loop, up to the call of the splitter
ChunkLine ==
    /\ c_pc = "lines"
    /\ c_lines # <<>>
    /\ LET line == Head(c_lines)
           st1 == FlushIfOver(c_st, line, c_max)
       IN  IF Len(line) > c_max
           THEN /\ c_st' = FlushBeforeSplit(st1)
                /\ c_start' = 0
                /\ c_out' = <<>>
                /\ c_pc' = "split"
                /\ UNCHANGED c_lines
           ELSE /\ c_st' = AppendLine(st1, line)
                /\ c_lines' = Tail(c_lines)
                /\ UNCHANGED <<c_pc, c_start, c_out>>
    /\ UNCHANGED <<c_text, c_max, c_result>>
    /\ UNCHANGED <<rateVars, queueVars, loopVars, textVars, probeVars, traceVars, depthVars, runVars, dispatchVars, cooldownVars, incomingVars, keyVars, pollVars>>

\* lines 261-288: one iteration of the while loop of the splitter
ChunkSplitIter ==
    /\ c_pc = "split"
    /\ c_start < Len(Head(c_lines))
    /\ LET r == SplitIter(Head(c_lines), c_start, c_out, c_max)
       IN  /\ c_out' = r.out
           /\ c_start' = r.start
           /\ c_pc' = IF r.brk THEN "split_done" ELSE "split"
    /\ UNCHANGED <<c_text, c_max, c_lines, c_st, c_result>>
    /\ UNCHANGED <<rateVars, queueVars, loopVars, textVars, probeVars, traceVars, depthVars, runVars, dispatchVars, cooldownVars, incomingVars, keyVars, pollVars>>

\* line 261: the while condition fails
ChunkSplitExit ==
    /\ c_pc = "split"
    /\ ~(c_start < Len(Head(c_lines)))
    /\ c_pc' = "split_done"
    /\ UNCHANGED <<c_text, c_max, c_lines, c_st, c_start, c_out, c_result>>
    /\ UNCHANGED <<rateVars, queueVars, loopVars, textVars, probeVars, traceVars, depthVars, runVars, dispatchVars, cooldownVars, incomingVars, keyVars, pollVars>>

\* lines 306-312: the pieces of the line go to chunks and current
ChunkSplitTaken ==
    /\ c_pc = "split_done"
    /\ c_st' = TakeLineChunks(c_st, c_out)
    /\ c_lines' = Tail(c_lines)
    /\ c_pc' = "lines"
    /\ UNCHANGED <<c_text, c_max, c_start, c_out, c_result>>
    /\ UNCHANGED <<rateVars, queueVars, loopVars, textVars, probeVars, traceVars, depthVars, runVars, dispatchVars, cooldownVars, incomingVars, keyVars, pollVars>>

\* lines 321-325: the lines are exhausted
ChunkFinish ==
    /\ c_pc = "lines"
    /\ c_lines = <<>>
    /\ c_result' = FinishChunks(c_st)
    /\ c_pc' = "done"
    /\ UNCHANGED <<c_text, c_max, c_lines, c_st, c_start, c_out>>
    /\ UNCHANGED <<rateVars, queueVars, loopVars, textVars, probeVars, traceVars, depthVars, runVars, dispatchVars, cooldownVars, incomingVars, keyVars, pollVars>>

ChunkNext ==
    \/ ChunkEntry
    \/ ChunkLine
    \/ ChunkSplitIter
    \/ ChunkSplitExit
    \/ ChunkSplitTaken
    \/ ChunkFinish

\* ------------------------------------------------------------------------
\* RateLimiter (rate_limit.rs)
\* ------------------------------------------------------------------------
\* the senders whose commands are rate limited
Senders == {1, 2}

\* RateLimiter::new: an empty map
RateInit ==
    /\ r_max \in 0..MaxRateCommands
    /\ r_window \in 0..MaxRateWindow
    /\ r_commands = [n \in {} |-> <<>>]
    /\ r_now = 0
    /\ r_calls = <<>>

\* map.entry(node_id).or_default()
EntryOrDefault(map, node_id) ==
    IF node_id \in DOMAIN map THEN map[node_id] ELSE <<>>

\* a timestamp exactly one window old is kept
RetainInclusive(timestamps, now, window) ==
    LET Recent(t) == now - t <= window
    IN  SelectSeq(timestamps, Recent)

\* timestamps.retain(|t| now.duration_since(*t) < window)
Retain(timestamps, now, window) ==
    LET Recent(t) == now - t < window
    IN  SelectSeq(timestamps, Recent)

\* RateLimiter::check: [admitted, commands]
check(commands, max_commands, window_secs, node_id, now) ==
    IF max_commands = 0
    THEN [admitted |-> TRUE, commands |-> commands]
    ELSE LET timestamps == Retain(EntryOrDefault(commands, node_id), now, window_secs)
             Put(ts) == [n \in DOMAIN commands \cup {node_id} |->
                            IF n = node_id THEN ts ELSE commands[n]]
         IN  IF Len(timestamps) >= max_commands
             THEN [admitted |-> FALSE, commands |-> Put(timestamps)]
             ELSE [admitted |-> TRUE, commands |-> Put(Append(timestamps, now))]

\* a sender's command reaches the limiter
RateCheck(node_id) ==
    /\ Len(r_calls) < MaxRateCalls
    /\ LET r == check(r_commands, r_max, r_window, node_id, r_now)
       IN  /\ r_commands' = r.commands
           /\ r_calls' = Append(r_calls,
                  [node |-> node_id, at |-> r_now, admitted |-> r.admitted])
    /\ UNCHANGED <<r_max, r_window, r_now>>
    /\ UNCHANGED <<chunkVars, queueVars, loopVars, textVars, probeVars, traceVars, depthVars, runVars, dispatchVars, cooldownVars, incomingVars, keyVars, pollVars>>

\* time passes
RateTick ==
    /\ r_now < MaxRateTime
    /\ r_now' = r_now + 1
    /\ UNCHANGED <<r_max, r_window, r_commands, r_calls>>
    /\ UNCHANGED <<chunkVars, queueVars, loopVars, textVars, probeVars, traceVars, depthVars, runVars, dispatchVars, cooldownVars, incomingVars, keyVars, pollVars>>

RateNext ==
    \/ \E node_id \in Senders : RateCheck(node_id)
    \/ RateTick

\* ------------------------------------------------------------------------
\* OutgoingQueue and queue_responses (outgoing.rs)
\* ------------------------------------------------------------------------
\* node ids: the local node and the other nodes of the mesh
NodeIds == {1, 2}

\* MeshChannel::new(ch) of the meshtastic crate is Ok for the channel
\* indexes 0..=7
MaxMeshChannel == 7
MeshChannelOk(ch) == ch >= 0 /\ ch <= MaxMeshChannel

\* the channel indexes responses and bridge messages carry: a valid one and
\* one that MeshChannel::new rejects
Channels == {0, MaxMeshChannel + 1}

\* the ids of inbound packets
PacketIds == {42}

\* response texts: one byte, and three bytes on one line
ShortText == EncodeStr(<<97>>)
LongText == EncodeStr(<<97, 97, 97>>)
ResponseTexts == {ShortText, LongText}

\* struct Response, as the calls of queue_responses checked here pass it:
\* either text on a valid channel, the short text on an invalid one
Responses ==
    {r \in [text : ResponseTexts, destination : {<<"Sender">>},
            channel : Channels, reply_id : {None}] :
        MeshChannelOk(r.channel) \/ r.text = ShortText}

\* the lists of responses a module returns
ResponseLists == SeqsUpTo(Responses, MaxResponses)

\* the part of MessageContext that queue_responses reads; the sender is a
\* node other than the local one
Contexts(local) ==
    [sender_id : NodeIds \ {local}, channel : {0}, packet_id : PacketIds]

\* struct OutgoingBridgeMessage
BridgeMessages == [text : {ShortText}, channel : Channels]

\* the queue with its depth counter; log is the history of every push, each
\* with the place it was pushed from
EmptyQueue == [queue |-> <<>>, depth |-> 0, log |-> <<>>]

\* OutgoingQueue::push (reached through Bot::queue_message)
Push(q, msg, src) ==
    [queue |-> Append(q.queue, msg),
     depth |-> q.depth + 1,
     log |-> Append(q.log, [msg |-> msg, src |-> src])]

\* a pop from the back of the queue
PopBack(q) ==
    IF q.queue = <<>> THEN [q |-> q, msg |-> None]
    ELSE [q |-> [q EXCEPT !.queue = SubSeq(@, 1, Len(@) - 1), !.depth = @ - 1],
          msg |-> Some(q.queue[Len(q.queue)])]

\* OutgoingQueue::pop: [q, msg]
Pop(q) ==
    IF q.queue = <<>> THEN [q |-> q, msg |-> None]
    ELSE [q |-> [q EXCEPT !.queue = Tail(@), !.depth = @ - 1],
          msg |-> Some(Head(q.queue))]

\* OutgoingQueue::is_empty
is_empty(q) == q.queue = <<>>

\* lines 85-89: Destination -> PacketDestination
PacketDestinationOf(ctx, response) ==
    IF response.destination[1] = "Sender" THEN <<"Node", ctx.sender_id>>
    ELSE IF response.destination[1] = "Broadcast" THEN <<"Broadcast">>
    ELSE <<"Node", response.destination[2]>>

\* Broadcast is addressed to the sender as well
ToNodeBroadcastToSender(ctx, response) ==
    IF response.destination[1] = "Node" THEN Some(response.destination[2])
    ELSE Some(ctx.sender_id)

\* lines 99-103: Destination -> to_node
ToNodeOf(ctx, response) ==
    IF response.destination[1] = "Sender" THEN Some(ctx.sender_id)
    ELSE IF response.destination[1] = "Node" THEN Some(response.destination[2])
    ELSE None

\* every chunk carries the reply_id
ChunkMessageAllReply(ctx, response, my_node_id, i, chunk) ==
    [kind |-> <<"Text">>,
     text |-> chunk,
     destination |-> PacketDestinationOf(ctx, response),
     channel |-> response.channel,
     from_node |-> my_node_id,
     to_node |-> ToNodeOf(ctx, response),
     mesh_channel |-> response.channel,
     reply_id |-> response.reply_id]

\* lines 107-117: the message of chunk i of a response
ChunkMessage(ctx, response, my_node_id, i, chunk) ==
    [kind |-> <<"Text">>,
     text |-> chunk,
     destination |-> PacketDestinationOf(ctx, response),
     channel |-> response.channel,
     from_node |-> my_node_id,
     to_node |-> ToNodeOf(ctx, response),
     mesh_channel |-> response.channel,
     reply_id |-> IF i = 0 THEN response.reply_id ELSE None]

\* where a push comes from: chunk i of response r of the call of
\* queue_responses that started after `call` pushes
ResponseSrc(call, r, i, response) ==
    [from |-> "response", call |-> call, resp |-> r, chunk |-> i,
     whole |-> response.text]

RECURSIVE PushChunks(_, _, _, _, _, _, _, _)
\* lines 106-118: for (i, chunk) in chunks.into_iter().enumerate()
PushChunks(q, ctx, response, my_node_id, chunks, i, call, r) ==
    IF i >= Len(chunks) THEN q
    ELSE PushChunks(
             Push(q, ChunkMessage(ctx, response, my_node_id, i, chunks[i + 1]),
                  ResponseSrc(call, r, i, response)),
             ctx, response, my_node_id, chunks, i + 1, call, r)

\* the chunks of a response are taken last first
ResponseChunksReversed(text, max_message_len) ==
    LET chunks == chunk_message(text, max_message_len)
    IN  [k \in 1..Len(chunks) |-> chunks[Len(chunks) + 1 - k]]

\* line 105: the chunks of one response
ResponseChunks(text, max_message_len) == chunk_message(text, max_message_len)

RECURSIVE QueueLoop(_, _, _, _, _, _, _)
\* lines 84-119: for response in responses
QueueLoop(q, ctx, responses, my_node_id, max_message_len, r, call) ==
    IF r > Len(responses) THEN q
    ELSE LET response == responses[r]
         IN  IF ~MeshChannelOk(response.channel)
             THEN QueueLoop(q, ctx, responses, my_node_id, max_message_len, r + 1, call)
             ELSE QueueLoop(
                      PushChunks(q, ctx, response, my_node_id,
                                 ResponseChunks(response.text, max_message_len),
                                 0, call, r),
                      ctx, responses, my_node_id, max_message_len, r + 1, call)

\* Bot::queue_responses
queue_responses(q, ctx, responses, my_node_id, max_message_len) ==
    QueueLoop(q, ctx, responses, my_node_id, max_message_len, 1, Len(q.log))

\* every bridge message goes out on the primary channel
HandleBridgeMessageOnPrimary(q, my_node_id, msg) ==
    IF ~MeshChannelOk(msg.channel) THEN q
    ELSE Push(q,
              [kind |-> <<"Text">>,
               text |-> msg.text,
               destination |-> <<"Broadcast">>,
               channel |-> 0,
               from_node |-> my_node_id,
               to_node |-> None,
               mesh_channel |-> 0,
               reply_id |-> None],
              [from |-> "bridge", call |-> Len(q.log), resp |-> 0, chunk |-> 0,
               whole |-> msg.text])

\* Bot::handle_bridge_message (incoming.rs)
handle_bridge_message(q, my_node_id, msg) ==
    IF ~MeshChannelOk(msg.channel) THEN q
    ELSE Push(q,
              [kind |-> <<"Text">>,
               text |-> msg.text,
               destination |-> <<"Broadcast">>,
               channel |-> msg.channel,
               from_node |-> my_node_id,
               to_node |-> None,
               mesh_channel |-> msg.channel,
               reply_id |-> None],
              [from |-> "bridge", call |-> Len(q.log), resp |-> 0, chunk |-> 0,
               whole |-> msg.text])

\* the state of a bot whose queue is driven call by call, with the node id
\* that MyInfo reported
QueueInit ==
    /\ cfg_max_message_len \in 0..MaxMessageLen
    /\ local_node_id = 1
    /\ outgoing = EmptyQueue
    /\ q_popped = <<>>
    /\ q_last_pop = None
    /\ q_offered = FALSE
    /\ q_call = None

\* the responses of a list that MeshChannel::new accepts
ValidResponses(responses) ==
    {r \in 1..Len(responses) : MeshChannelOk(responses[r].channel)}

\* queue_responses is called with a context and up to MaxResponses responses
QueueResponses(ctx, responses) ==
    /\ LET q == queue_responses(outgoing, ctx, responses, local_node_id, cfg_max_message_len)
       IN  /\ Len(q.log) <= MaxPushed
           /\ outgoing' = q
    /\ q_offered' = (q_offered \/ ValidResponses(responses) # {})
    /\ UNCHANGED <<cfg_max_message_len, local_node_id, q_call, q_popped, q_last_pop>>
    /\ UNCHANGED <<chunkVars, rateVars, loopVars, textVars, probeVars, traceVars, depthVars, runVars, dispatchVars, cooldownVars, incomingVars, keyVars, pollVars>>

\* a bridge message is handled
HandleBridgeMessage(msg) ==
    /\ Len(outgoing.log) < MaxPushed
    /\ outgoing' = handle_bridge_message(outgoing, local_node_id, msg)
    /\ UNCHANGED <<cfg_max_message_len, local_node_id, q_call, q_popped, q_last_pop, q_offered>>
    /\ UNCHANGED <<chunkVars, rateVars, loopVars, textVars, probeVars, traceVars, depthVars, runVars, dispatchVars, cooldownVars, incomingVars, keyVars, pollVars>>

\* send_next_queued_message, lines 128-131: the pop and the early return
SendNext ==
    /\ LET r == Pop(outgoing)
       IN  /\ outgoing' = r.q
           /\ q_last_pop' = r.msg
           /\ q_popped' = q_popped \o r.msg
    /\ UNCHANGED <<cfg_max_message_len, local_node_id, q_call, q_offered>>
    /\ UNCHANGED <<chunkVars, rateVars, loopVars, textVars, probeVars, traceVars, depthVars, runVars, dispatchVars, cooldownVars, incomingVars, keyVars, pollVars>>

QueueNext ==
    \/ \E ctx \in Contexts(local_node_id), responses \in ResponseLists :
           QueueResponses(ctx, responses)
    \/ \E msg \in BridgeMessages : HandleBridgeMessage(msg)
    \/ SendNext

\* ------------------------------------------------------------------------
\* Bot::run, Bot::event_loop and the NodeInfo path (runtime.rs, incoming.rs,
\* events.rs, startup_state.rs, modules/welcome.rs)
\* ------------------------------------------------------------------------
\* the nodes whose NodeInfo frames the radio delivers: the local node and
\* two others
MeshNodes == NodeIds \cup {3}

\* the greeting of the welcome module, and the text of a bridge message
WelcomeText == EncodeStr(<<97, 97>>)
LoopBridgeMessages == [text : {ShortText}, channel : {0}]

\* StartupState::new
NewStartupState == [connected_at |-> None, deferred_events |-> <<>>]

\* the deferred events of the connection before are kept
MarkConnectedKeepDeferred(st, t) == [st EXCEPT !.connected_at = Some(t)]

\* StartupState::mark_connected_and_reset, at time t
mark_connected_and_reset(st, t) ==
    [connected_at |-> Some(t), deferred_events |-> <<>>]

\* StartupState::in_grace_period, at time t
in_grace_period(st, grace_secs, t) ==
    IF st.connected_at = None THEN FALSE
    ELSE t - st.connected_at[1] < grace_secs

\* StartupState::defer_event
defer_event(st, event) ==
    [st EXCEPT !.deferred_events = Append(@, event)]

\* the deferred events are cleared and none is handed out
TakeDeferredDropped(st) ==
    [st |-> [st EXCEPT !.deferred_events = <<>>], events |-> <<>>]

\* StartupState::take_deferred: [st, events]
take_deferred(st) ==
    [st |-> [st EXCEPT !.deferred_events = <<>>], events |-> st.deferred_events]

\* MeshEvent::NodeDiscovered
NodeDiscovered(node_id) == [node_id |-> node_id]

\* Db::upsert_node on the set of node ids
upsert_node(nodes, node_id) == nodes \cup {node_id}

\* WelcomeModule::handle_event for a node seen within the absence threshold:
\* [nodes, responses]
WelcomeHandleEvent(nodes, event) ==
    [nodes |-> upsert_node(nodes, event.node_id),
     responses |->
         IF event.node_id \notin nodes
         THEN <<[text |-> WelcomeText,
                 destination |-> <<"Node", event.node_id>>,
                 channel |-> 0,
                 reply_id |-> None]>>
         ELSE <<>>]

\* Bot::dispatch_event_to_modules with the welcome module registered; b is
\* [nodes, q, trace]
dispatch_event_to_modules(b, event, my_node_id, max_message_len) ==
    LET r == WelcomeHandleEvent(b.nodes, event)
        ctx == [sender_id |-> event.node_id, channel |-> 0, packet_id |-> 0]
    IN  [nodes |-> r.nodes,
         q |-> IF r.responses = <<>> THEN b.q
               ELSE queue_responses(b.q, ctx, r.responses, my_node_id, max_message_len),
         trace |-> Append(b.trace, <<"dispatch", event.node_id>>)]

\* the bot's own db.upsert_node after a dispatch
UpsertAfterDispatch(b, node_id) ==
    [b EXCEPT !.nodes = upsert_node(@, node_id),
              !.trace = Append(@, <<"upsert", node_id>>)]

RECURSIVE DispatchEach(_, _, _, _)
\* events.rs lines 20-36: for event in &events
DispatchEach(b, events, my_node_id, max_message_len) ==
    IF events = <<>> THEN b
    ELSE DispatchEach(
             UpsertAfterDispatch(
                 dispatch_event_to_modules(b, Head(events), my_node_id, max_message_len),
                 Head(events).node_id),
             Tail(events), my_node_id, max_message_len)

\* Bot::dispatch_deferred_events: [st, b]
dispatch_deferred_events(st, b, my_node_id, max_message_len) ==
    LET taken == take_deferred(st)
    IN  [st |-> taken.st,
         b |-> DispatchEach(b, taken.events, my_node_id, max_message_len)]

\* Bot::handle_node_info at time t: [st, b]
handle_node_info(st, b, my_node_id, node_id, grace_secs, max_message_len, t) ==
    IF node_id = my_node_id
    THEN [st |-> st, b |-> UpsertAfterDispatch(b, node_id)]
    ELSE IF in_grace_period(st, grace_secs, t)
    THEN [st |-> defer_event(st, NodeDiscovered(node_id)), b |-> b]
    ELSE [st |-> st,
          b |-> UpsertAfterDispatch(
                    dispatch_event_to_modules(b, NodeDiscovered(node_id),
                                              my_node_id, max_message_len),
                    node_id)]

\* the send timer keeps its deadline
SendTimerKept(timer, t, delay) == timer

\* runtime.rs line 247: send_timer.reset(Instant::now() + send_delay)
ResetSendTimer(timer, t, delay) == t + delay

\* the radio sends that take no tick of the clock, and those that take one
SendTicks == {0, 1}

\* the bot before its first connection: an empty database and queue, a
\* max_message_len that splits the greeting or holds it, and the node id
\* that MyInfo will report
LoopInit ==
    /\ cfg_max_message_len \in {1, Len(WelcomeText)}
    /\ local_node_id = 1
    /\ outgoing = EmptyQueue
    /\ q_popped = <<>>
    /\ q_last_pop = None
    /\ q_offered = FALSE
    /\ q_call = None
    /\ clock = 0
    /\ l_pc = "reconnecting"
    /\ startup_state = NewStartupState
    /\ db_nodes = {}
    /\ grace_timer = 0
    /\ grace_period_done = FALSE
    /\ send_timer = 0
    /\ bridge_active = FALSE
    /\ l_conn = [id |-> 0, at |-> 0]
    /\ l_rx = <<>>
    /\ l_trace = <<>>
    /\ l_last_send = None

\* the bot as the handlers see it
BotView == [nodes |-> db_nodes, q |-> outgoing, trace |-> <<>>]

\* connect_and_run reaches event_loop, lines 167-205: the startup state is
\* reset and the timers are created
Connect ==
    /\ l_pc = "reconnecting"
    /\ l_conn.id < MaxConnections
    /\ l_pc' = "loop"
    /\ startup_state' = mark_connected_and_reset(startup_state, clock)
    /\ grace_timer' = clock + StartupGrace
    /\ grace_period_done' = FALSE
    /\ send_timer' = clock + SendDelay
    /\ bridge_active' = TRUE
    /\ l_conn' = [id |-> l_conn.id + 1, at |-> clock]
    /\ l_rx' = <<>>
    /\ l_trace' = <<>>
    /\ l_bridge_none' = 0
    /\ UNCHANGED <<queueVars, clock, db_nodes, l_last_send, l_send_results>>
    /\ UNCHANGED <<chunkVars, rateVars, textVars, probeVars, traceVars, depthVars, runVars, dispatchVars, cooldownVars, incomingVars, keyVars>>

\* the packet branch with a NodeInfo frame: process_radio_packet and
\* handle_node_info
RecvNodeInfo(node_id) ==
    /\ l_pc = "loop"
    /\ Len(l_rx) < MaxRx
    /\ LET r == handle_node_info(startup_state, BotView, local_node_id, node_id,
                                 StartupGrace, cfg_max_message_len, clock)
       IN  /\ startup_state' = r.st
           /\ db_nodes' = r.b.nodes
           /\ outgoing' = r.b.q
           /\ l_trace' = r.b.trace
    /\ l_rx' = Append(l_rx, [node |-> node_id,
                             grace |-> clock - l_conn.at < StartupGrace])
    /\ UNCHANGED <<cfg_max_message_len, local_node_id, q_call, q_popped, q_last_pop,
                   q_offered, clock, l_pc, grace_timer, grace_period_done,
                   send_timer, bridge_active, l_conn, l_last_send>>
    /\ UNCHANGED <<chunkVars, rateVars, textVars, probeVars, traceVars, depthVars, runVars, dispatchVars, cooldownVars, incomingVars, keyVars, pollVars>>

\* the packet branch with None: event_loop returns, which drops its timers
\* and flags, and run reconnects
PacketChannelClosed ==
    /\ l_pc = "loop"
    /\ l_pc' = "reconnecting"
    /\ grace_timer' = 0
    /\ grace_period_done' = FALSE
    /\ send_timer' = 0
    /\ bridge_active' = FALSE
    /\ l_rx' = <<>>
    /\ l_trace' = <<>>
    /\ UNCHANGED <<queueVars, clock, startup_state, db_nodes, l_conn, l_last_send>>
    /\ UNCHANGED <<chunkVars, rateVars, textVars, probeVars, traceVars, depthVars, runVars, dispatchVars, cooldownVars, incomingVars, keyVars, pollVars>>

\* the grace branch, lines 238-241
GraceTimerFires ==
    /\ l_pc = "loop"
    /\ ~grace_period_done
    /\ clock >= grace_timer
    /\ grace_period_done' = TRUE
    /\ LET r == dispatch_deferred_events(startup_state, BotView, local_node_id,
                                         cfg_max_message_len)
       IN  /\ startup_state' = r.st
           /\ db_nodes' = r.b.nodes
           /\ outgoing' = r.b.q
           /\ l_trace' = r.b.trace
    /\ UNCHANGED <<cfg_max_message_len, local_node_id, q_call, q_popped, q_last_pop,
                   q_offered, clock, l_pc, grace_timer, send_timer, bridge_active,
                   l_conn, l_rx, l_last_send>>
    /\ UNCHANGED <<chunkVars, rateVars, textVars, probeVars, traceVars, depthVars, runVars, dispatchVars, cooldownVars, incomingVars, keyVars, pollVars>>

\* a message whose send failed goes back to the end of the queue
RequeueOnError(q, msg, ok) ==
    IF ok \/ msg = None THEN q
    ELSE [q EXCEPT !.queue = Append(@, msg[1]), !.depth = @ + 1]

\* send_next_queued_message after the pop, outgoing.rs lines 133-241: the
\* message is sent and an error is logged; the queue is not touched
AfterSend(q, msg, ok) == q

\* the send branch, lines 244-248: one message is popped and sent, which
\* takes `took` ticks and succeeds or fails, and the timer is reset
SendTimerFires(took, ok) ==
    /\ l_pc = "loop"
    /\ ~is_empty(outgoing)
    /\ clock >= send_timer
    /\ clock + took <= MaxLoopTime
    /\ l_send_results' = Append(l_send_results, ok)
    /\ LET r == Pop(outgoing)
       IN  /\ outgoing' = AfterSend(r.q, r.msg, ok)
           /\ q_last_pop' = r.msg
           /\ q_popped' = q_popped \o r.msg
           /\ l_last_send' =
                  IF r.msg = None THEN l_last_send
                  ELSE Some([at |-> clock, conn |-> l_conn.id])
    /\ clock' = clock + took
    /\ send_timer' = ResetSendTimer(send_timer, clock', SendDelay)
    /\ l_trace' = <<>>
    /\ UNCHANGED <<cfg_max_message_len, local_node_id, q_call, q_offered, l_pc,
                   startup_state, db_nodes, grace_timer, grace_period_done,
                   bridge_active, l_conn, l_rx, l_bridge_none>>
    /\ UNCHANGED <<chunkVars, rateVars, textVars, probeVars, traceVars, depthVars, runVars, dispatchVars, cooldownVars, incomingVars, keyVars>>

\* the bridge branch with a message, lines 214-218
BridgeRecv(msg) ==
    /\ l_pc = "loop"
    /\ bridge_active
    /\ Cardinality({i \in 1..Len(outgoing.log) :
                        outgoing.log[i].src.from = "bridge"}) < MaxBridged
    /\ outgoing' = handle_bridge_message(outgoing, local_node_id, msg)
    /\ l_trace' = <<>>
    /\ UNCHANGED <<cfg_max_message_len, local_node_id, q_call, q_popped, q_last_pop,
                   q_offered, clock, l_pc, startup_state, db_nodes, grace_timer,
                   grace_period_done, send_timer, bridge_active, l_conn, l_rx,
                   l_last_send>>
    /\ UNCHANGED <<chunkVars, rateVars, textVars, probeVars, traceVars, depthVars, runVars, dispatchVars, cooldownVars, incomingVars, keyVars, pollVars>>

\* the branch stays enabled after recv gave None
BridgeActiveKept == TRUE

\* line 220: bridge_active = false
BridgeActiveAfterNone == FALSE

\* the bridge branch with None, lines 219-222
BridgeClosed ==
    /\ l_pc = "loop"
    /\ bridge_active
    /\ l_bridge_none < MaxBridgeNone
    /\ bridge_active' = BridgeActiveAfterNone
    /\ l_bridge_none' = l_bridge_none + 1
    /\ l_trace' = <<>>
    /\ UNCHANGED <<queueVars, clock, l_pc, startup_state, db_nodes, grace_timer,
                   grace_period_done, send_timer, l_conn, l_rx, l_last_send,
                   l_send_results>>
    /\ UNCHANGED <<chunkVars, rateVars, textVars, probeVars, traceVars, depthVars, runVars, dispatchVars, cooldownVars, incomingVars, keyVars>>

\* the clock advances while the task waits in select! or in the reconnect
\* sleep
Tick ==
    /\ clock < MaxLoopTime
    /\ clock' = clock + 1
    /\ l_trace' = <<>>
    /\ UNCHANGED <<queueVars, l_pc, startup_state, db_nodes, grace_timer,
                   grace_period_done, send_timer, bridge_active, l_conn, l_rx,
                   l_last_send>>
    /\ UNCHANGED <<chunkVars, rateVars, textVars, probeVars, traceVars, depthVars, runVars, dispatchVars, cooldownVars, incomingVars, keyVars, pollVars>>

LoopNext ==
    \/ Connect
    \/ \E node_id \in MeshNodes : RecvNodeInfo(node_id)
    \/ PacketChannelClosed
    \/ GraceTimerFires
    \/ \E took \in SendTicks, ok \in BOOLEAN : SendTimerFires(took, ok)
    \/ \E msg \in LoopBridgeMessages : BridgeRecv(msg)
    \/ BridgeClosed
    \/ Tick

\* ------------------------------------------------------------------------
\* queue_responses with every destination and reply id (outgoing.rs,
\* message.rs)
\* ------------------------------------------------------------------------
\* enum Destination, with the nodes a module addresses
Destinations == {<<"Sender">>, <<"Broadcast">>} \cup {<<"Node", n>> : n \in {2, 3}}

\* Response::reply_id: no reply, or a reply to the inbound packet
ReplyIds == {None} \cup {Some(p) : p \in PacketIds}

\* a channel that MeshChannel::new accepts and that is not the channel of
\* the inbound packet
ReplyChannel == 3

\* struct Response with every destination and reply id: either text on the
\* valid channel, and one response on a channel MeshChannel::new rejects
AddressedResponses ==
    {r \in [text : ResponseTexts, destination : Destinations,
            channel : {ReplyChannel, MaxMeshChannel + 1}, reply_id : ReplyIds] :
        \/ MeshChannelOk(r.channel)
        \/ r.text = ShortText /\ r.destination = <<"Sender">> /\ r.reply_id = None}

\* the lists of such responses a module returns
AddressedResponseLists == SeqsUpTo(AddressedResponses, MaxResponses)

\* queue_responses is called for an inbound packet with the responses of a
\* module; one packet is followed from the call to the sends
QueueResponsesTo(ctx, responses) ==
    /\ q_call = None
    /\ LET q == queue_responses(outgoing, ctx, responses, local_node_id, cfg_max_message_len)
       IN  /\ Len(q.log) <= MaxPushed
           /\ outgoing' = q
    /\ q_offered' = (q_offered \/ ValidResponses(responses) # {})
    /\ q_call' = Some([ctx |-> ctx, responses |-> responses, call |-> Len(outgoing.log)])
    /\ UNCHANGED <<cfg_max_message_len, local_node_id, q_popped, q_last_pop>>
    /\ UNCHANGED <<chunkVars, rateVars, loopVars, textVars, probeVars, traceVars, depthVars, runVars, dispatchVars, cooldownVars, incomingVars, keyVars, pollVars>>

RespondNext ==
    \/ \E ctx \in Contexts(local_node_id), responses \in AddressedResponseLists :
           QueueResponsesTo(ctx, responses)
    \/ SendNext

\* ------------------------------------------------------------------------
\* Bot::handle_bridge_message on the messages of the bridges (incoming.rs,
\* bridge.rs)
\* ------------------------------------------------------------------------
\* the bridge messages of one run
MaxBridgeCalls == 2

\* struct OutgoingBridgeMessage: a text within max_message_len or longer
\* than it, on the primary channel, another valid channel or a channel that
\* MeshChannel::new rejects, from either bridge
OutgoingBridgeMessages ==
    [text : {ShortText, LongText}, channel : {0, 2, MaxMeshChannel + 1},
     source : {"telegram", "discord"}]

\* the calls of handle_bridge_message made so far
BridgeCalls == IF q_call = None THEN 0 ELSE q_call[1].n

\* the bridge branch of the event loop hands msg to handle_bridge_message
HandleBridgeMessageFrom(msg) ==
    /\ BridgeCalls < MaxBridgeCalls
    /\ outgoing' = handle_bridge_message(outgoing, local_node_id, msg)
    /\ q_call' = Some([msg |-> msg, call |-> Len(outgoing.log), n |-> BridgeCalls + 1])
    /\ UNCHANGED <<cfg_max_message_len, local_node_id, q_popped, q_last_pop, q_offered>>
    /\ UNCHANGED <<chunkVars, rateVars, loopVars, textVars, probeVars, traceVars, depthVars, runVars, dispatchVars, cooldownVars, incomingVars, keyVars, pollVars>>

BridgeNext ==
    \/ \E msg \in OutgoingBridgeMessages : HandleBridgeMessageFrom(msg)
    \/ SendNext

\* ------------------------------------------------------------------------
\* Bot::handle_text_message and the mesh-to-bridge channel (incoming.rs,
\* command_handler.rs, bridge.rs)
\* ------------------------------------------------------------------------
\* the text packets handled in one run
MaxTextPackets == 2

\* the markers "[TG:" and "[DC:" the bridges put before a relayed text
\* (bridges/telegram.rs line 205, bridges/discord.rs line 109)
TgMarker == <<91, 84, 71, 58>>
DcMarker == <<91, 68, 67, 58>>

\* config.bot.command_prefix, by default "!"
CommandPrefix == <<33>>

\* str::starts_with
starts_with(s, p) == Len(s) >= Len(p) /\ SubSeq(s, 1, Len(p)) = p

\* char::is_whitespace for the ASCII range
IsWhitespace(b) == b \in {9, 10, 11, 12, 13, 32}

RECURSIVE trim_start(_)
\* str::trim_start
trim_start(s) ==
    IF s # <<>> /\ IsWhitespace(Head(s)) THEN trim_start(Tail(s)) ELSE s

RECURSIVE trim_end(_)
\* str::trim_end
trim_end(s) ==
    IF s # <<>> /\ IsWhitespace(s[Len(s)])
    THEN trim_end(SubSeq(s, 1, Len(s) - 1)) ELSE s

\* str::trim
trim(s) == trim_end(trim_start(s))

\* the bytes a UTF-8 sequence takes by its first byte, 0 for a byte that
\* starts none
SequenceLen(b) ==
    IF b < 128 THEN 1
    ELSE IF b >= 194 /\ b <= 223 THEN 2
    ELSE IF b >= 224 /\ b <= 239 THEN 3
    ELSE IF b >= 240 /\ b <= 244 THEN 4
    ELSE 0

RECURSIVE from_utf8_ok(_)
\* std::str::from_utf8(payload).is_ok(), by lead and continuation bytes
from_utf8_ok(payload) ==
    IF payload = <<>> THEN TRUE
    ELSE LET n == SequenceLen(Head(payload))
         IN  /\ n > 0
             /\ Len(payload) >= n
             /\ \A k \in 2..n : IsContinuation(payload[k])
             /\ from_utf8_ok(SubSeq(payload, n + 1, Len(payload)))

\* the index of the first space of s, 0 when there is none
FirstSpace(s) ==
    IF \E k \in 1..Len(s) : s[k] = 32
    THEN CHOOSE k \in 1..Len(s) : s[k] = 32 /\ \A j \in 1..(k - 1) : s[j] # 32
    ELSE 0

\* Bot::parse_command: None, or Some(<<command, args>>)
parse_command(trimmed_text, prefix) ==
    LET sp == FirstSpace(trimmed_text)
        raw_command == IF sp = 0 THEN trimmed_text ELSE SubSeq(trimmed_text, 1, sp - 1)
        args == IF sp = 0 THEN <<>> ELSE trim(SubSeq(trimmed_text, sp + 1, Len(trimmed_text)))
    IN  IF starts_with(raw_command, prefix)
        THEN Some(<<SubSeq(raw_command, Len(prefix) + 1, Len(raw_command)), args>>)
        ELSE None

\* the payloads of inbound text packets: plain text, a marker at position 0,
\* a marker after a space, after a letter, a cut marker, a marker in another
\* case, and bytes that are not UTF-8; none of them is a command
TextPayloads ==
    {p \in {<<97>>,
            TgMarker \o <<97>>,
            DcMarker \o <<97>>,
            <<32>> \o TgMarker \o <<97>>,
            <<97>> \o DcMarker,
            <<91, 84, 71>>,
            <<91, 116, 103, 58>>,
            <<91, 84, 67, 58, 97, 32>>,
            <<255>>} :
        ~from_utf8_ok(p) \/ parse_command(trim(p), CommandPrefix) = None}

\* protobufs::MeshPacket with a text payload: to the local node, to another
\* node, or to no node (to == 0, which the handlers read as a broadcast)
TextPackets(local) ==
    [from : {2}, to : {local, 3, 0}, channel : {0}, id : PacketIds,
     payload : TextPayloads]

\* line 564: the condition under which a text is handed to the bridges
ForBridgesTgOnly(is_dm, text) ==
    ~is_dm /\ ~starts_with(text, TgMarker)

\* line 564: the condition under which a text is handed to the bridges
ForBridges(is_dm, text) ==
    ~is_dm /\ ~starts_with(text, TgMarker) /\ ~starts_with(text, DcMarker)

\* lines 566-572: struct MeshBridgeMessage, without the sender's name
BridgeMsg(mesh_packet, trimmed_text, is_dm) ==
    [sender_id |-> mesh_packet.from,
     text |-> trimmed_text,
     channel |-> mesh_packet.channel,
     is_dm |-> is_dm]

\* broadcast::Sender::send: the message reaches the channel when a receiver
\* is subscribed, and is an error otherwise
BroadcastSend(tx, chan, msg) == IF tx[1] > 0 THEN Append(chan, msg) ELSE chan

\* Bot::handle_text_message for a text that is no command: [chan, sent]
handle_text_message(tx, chan, my_node_id, mesh_packet) ==
    IF ~from_utf8_ok(mesh_packet.payload) THEN [chan |-> chan, sent |-> FALSE]
    ELSE LET text == mesh_packet.payload
             trimmed_text == trim(text)
             is_dm == mesh_packet.to = my_node_id
         IN  IF ForBridges(is_dm, text) /\ tx # None
             THEN [chan |-> BroadcastSend(tx, chan, BridgeMsg(mesh_packet, trimmed_text, is_dm)),
                   sent |-> TRUE]
             ELSE [chan |-> chan, sent |-> FALSE]

\* a bot without bridges, with bridges that have not subscribed, or with a
\* subscribed bridge; nothing queued
TextInit ==
    /\ cfg_max_message_len = MaxMessageLen
    /\ local_node_id = 1
    /\ outgoing = EmptyQueue
    /\ q_popped = <<>>
    /\ q_last_pop = None
    /\ q_offered = FALSE
    /\ q_call = None
    /\ bridge_tx \in {None, Some(0), Some(1)}
    /\ mesh_to_bridge = <<>>
    /\ t_last = None

\* the packet branch with a text packet: handle_text_message, whose
\* dispatch_command_from_text returns at parse_command for these texts
HandleTextMessage(mesh_packet) ==
    /\ Len(mesh_to_bridge) < MaxTextPackets
    /\ LET r == handle_text_message(bridge_tx, mesh_to_bridge, local_node_id, mesh_packet)
       IN  /\ mesh_to_bridge' = r.chan
           /\ t_last' = Some([packet |-> mesh_packet, sent |-> r.sent])
    /\ UNCHANGED <<bridge_tx, queueVars>>
    /\ UNCHANGED <<chunkVars, rateVars, loopVars, probeVars, traceVars, depthVars, runVars, dispatchVars, cooldownVars, incomingVars, keyVars, pollVars>>

TextNext ==
    \E mesh_packet \in TextPackets(local_node_id) : HandleTextMessage(mesh_packet)

\* ------------------------------------------------------------------------
\* select_probe_target_adaptive (runtime.rs), with the store's query
\* recent_rf_nodes_missing_hops (db.rs) and TracerouteState::can_send
\* ------------------------------------------------------------------------
\* the eligible nodes in the store: one more than the largest window
MaxCandidates == 101

\* the stores of which every cooldown set is tried
MaxSmallStore == 3

\* only the first window is queried
LimitsFirstOnly == <<10>>

\* runtime.rs line 301: let limits = [10usize, 25, 50, 100]
limits == <<10, 25, 50, 100>>

\* the eligible nodes of a store of n nodes, last seen first; the local node
\* 1 is excluded by the query
StoreOf(n) == [i \in 1..n |-> i + 1]

\* the cooldown sets tried for a store: its k most recently seen nodes, and
\* for a small store every set
CoolingSets(store) ==
    {{store[i] : i \in 1..k} : k \in 0..Len(store)}
    \cup (IF Len(store) <= MaxSmallStore
          THEN SUBSET {store[i] : i \in 1..Len(store)} ELSE {})

\* Db::recent_rf_nodes_missing_hops: ORDER BY last_seen DESC LIMIT limit
fetch_candidates(store, limit) ==
    SubSeq(store, 1, IF Len(store) < limit THEN Len(store) ELSE limit)

\* no node is under cooldown
CanSendAlways(cooling, node_id) == TRUE

\* TracerouteState::can_send, for the nodes whose last probe is younger
\* than the cooldown
can_send(cooling, node_id) == node_id \notin cooling

\* a node of an earlier window is checked again
SeenNever(seen, node_id) == FALSE

\* line 74: !seen.insert(node_id)
SeenBefore(seen, node_id) == node_id \in seen

RECURSIVE ScanCandidates(_, _, _, _)
\* lines 73-86: for node_id in candidates; [st, checks, target]
ScanCandidates(candidates, cooling, i, acc) ==
    IF i > Len(candidates) THEN acc
    ELSE LET node_id == candidates[i]
         IN  IF SeenBefore(acc.st.seen, node_id)
             THEN ScanCandidates(candidates, cooling, i + 1, acc)
             ELSE LET st == [acc.st EXCEPT !.seen = @ \cup {node_id}]
                      checks == Append(acc.checks, node_id)
                  IN  IF can_send(cooling, node_id)
                      THEN [st |-> st, checks |-> checks, target |-> Some(node_id)]
                      ELSE ScanCandidates(candidates, cooling, i + 1,
                               [st |-> [st EXCEPT !.cooldown_skipped = @ + 1],
                                checks |-> checks, target |-> None])

\* struct ProbeSelection
ProbeSelection(target, st) ==
    [target |-> target,
     cooldown_skipped |-> st.cooldown_skipped,
     queried_limits |-> st.queried_limits,
     had_candidates |-> st.had_candidates]

\* the selector is called on a store and a cooldown map, lines 58-61
ProbeInit ==
    /\ p_pc = "loop"
    /\ p_store \in {StoreOf(n) : n \in 0..MaxCandidates}
    /\ p_cooling \in CoolingSets(p_store)
    /\ p_next = 1
    /\ p_st = [seen |-> {}, cooldown_skipped |-> 0, queried_limits |-> 0,
               had_candidates |-> FALSE]
    /\ p_result = None
    /\ p_queries = <<>>
    /\ p_checks = <<>>

\* one iteration of for &limit in limits, lines 63-91
ProbeWindow ==
    /\ p_pc = "loop"
    /\ p_next <= Len(limits)
    /\ LET limit == limits[p_next]
           candidates == fetch_candidates(p_store, limit)
           st1 == [p_st EXCEPT !.queried_limits = @ + 1]
           st2 == [st1 EXCEPT !.had_candidates = TRUE]
           r == ScanCandidates(candidates, p_cooling, 1,
                               [st |-> st2, checks |-> p_checks, target |-> None])
       IN  /\ p_queries' = Append(p_queries, [limit |-> limit, rows |-> Len(candidates)])
           /\ IF candidates = <<>>
              THEN /\ p_st' = st1
                   /\ p_pc' = "exit"
                   /\ UNCHANGED <<p_checks, p_result, p_next>>
              ELSE /\ p_st' = r.st
                   /\ p_checks' = r.checks
                   /\ IF r.target # None
                      THEN /\ p_result' = Some(ProbeSelection(r.target, r.st))
                           /\ p_pc' = "done"
                           /\ UNCHANGED p_next
                      ELSE /\ p_pc' = IF Len(candidates) < limit THEN "exit" ELSE "loop"
                           /\ p_next' = IF Len(candidates) < limit THEN p_next ELSE p_next + 1
                           /\ UNCHANGED p_result
    /\ UNCHANGED <<p_store, p_cooling>>
    /\ UNCHANGED <<chunkVars, rateVars, queueVars, loopVars, textVars, traceVars, depthVars, runVars, dispatchVars, cooldownVars, incomingVars, keyVars, pollVars>>

\* lines 94-99: the loop is left without a target
ProbeReturnNone ==
    /\ \/ p_pc = "exit"
       \/ p_pc = "loop" /\ p_next > Len(limits)
    /\ p_pc' = "done"
    /\ p_result' = Some(ProbeSelection(None, p_st))
    /\ UNCHANGED <<p_store, p_cooling, p_next, p_st, p_queries, p_checks>>
    /\ UNCHANGED <<chunkVars, rateVars, queueVars, loopVars, textVars, traceVars, depthVars, runVars, dispatchVars, cooldownVars, incomingVars, keyVars, pollVars>>

ProbeNext ==
    \/ ProbeWindow
    \/ ProbeReturnNone

\* ------------------------------------------------------------------------
\* The traceroute tables: Db::log_traceroute_observation and
\* Db::traceroute_status (db.rs), Bot::traceroute_session_key (bot/mod.rs)
\* ------------------------------------------------------------------------
\* the calls of log_traceroute_observation in one run
MaxObservations == 3

\* the advances of the clock in one run
MaxTraceTicks == 1

\* the digits of {:x}
HexDigits == <<"0", "1", "2", "3", "4", "5", "6", "7", "8", "9",
               "a", "b", "c", "d", "e", "f">>

\* 16 to the power k
Pow16(k) == IF k = 0 THEN 1 ELSE IF k = 1 THEN 16 ELSE IF k = 2 THEN 256
            ELSE IF k = 3 THEN 4096 ELSE IF k = 4 THEN 65536
            ELSE IF k = 5 THEN 1048576 ELSE IF k = 6 THEN 16777216
            ELSE 268435456

\* format!("{:08x}", n), for n below 2^31
Hex8(n) == [i \in 1..8 |-> HexDigits[((n \div Pow16(8 - i)) % 16) + 1]]

RECURSIVE Decimal(_)
\* format!("{}", n)
Decimal(n) ==
    IF n < 10 THEN <<HexDigits[n + 1]>>
    ELSE Append(Decimal(n \div 10), HexDigits[(n % 10) + 1])

\* the key with the request id in decimal digits
TracerouteSessionKeyDecimal(src_node, dst_node, request_mesh_id) ==
    <<"r", "e", "q", ":">> \o Hex8(src_node) \o <<":">>
    \o (IF dst_node = None
        THEN <<"b", "r", "o", "a", "d", "c", "a", "s", "t">>
        ELSE Hex8(dst_node[1]))
    \o <<":">> \o Decimal(request_mesh_id)

\* Bot::traceroute_session_key: "req:{:08x}:{}:{:08x}", one character per
\* element
traceroute_session_key(src_node, dst_node, request_mesh_id) ==
    <<"r", "e", "q", ":">> \o Hex8(src_node) \o <<":">>
    \o (IF dst_node = None
        THEN <<"b", "r", "o", "a", "d", "c", "a", "s", "t">>
        ELSE Hex8(dst_node[1]))
    \o <<":">> \o Hex8(request_mesh_id)

\* the status looks at the hop counts only
TracerouteStatusHopsOnly(request_hops, response_hops, request_route_len, response_route_len) ==
    IF request_hops # None /\ response_hops # None THEN "complete"
    ELSE IF request_hops # None \/ response_hops # None THEN "partial"
    ELSE "observed"

\* Db::traceroute_status
traceroute_status(request_hops, response_hops, request_route_len, response_route_len) ==
    LET req_present == request_hops # None \/ request_route_len > 0
        res_present == response_hops # None \/ response_route_len > 0
    IN  IF req_present /\ res_present THEN "complete"
        ELSE IF req_present \/ res_present THEN "partial"
        ELSE "observed"

\* the new value is stored, null or not
OptionOrNew(a, b) == a

\* Option::or
OptionOr(a, b) == IF a # None THEN a ELSE b

\* the smaller of two timestamps
Min(a, b) == IF a < b THEN a ELSE b

\* the row id of the session with a trace_key, 0 when there is none:
\* SELECT ... WHERE trace_key = ?1 LIMIT 1
FindSession(sessions, trace_key) ==
    IF \E id \in 1..Len(sessions) : sessions[id].trace_key = trace_key
    THEN CHOOSE id \in 1..Len(sessions) : sessions[id].trace_key = trace_key
    ELSE 0

\* lines 1408-1450: UPDATE traceroute_sessions of the row found; o is the
\* observation
UpdateSession(s, o, t) ==
    LET merged_req_hops == OptionOr(o.request_hops, s.request_hops)
        merged_req_start == OptionOr(o.request_hop_start, s.request_hop_start)
        merged_res_hops == OptionOr(o.response_hops, s.response_hops)
        merged_res_start == OptionOr(o.response_hop_start, s.response_hop_start)
    IN  [trace_key |-> s.trace_key,
         first_seen |-> Min(s.first_seen, t),
         last_seen |-> t,
         src_node |-> o.src_node,
         dst_node |-> o.dst_node,
         request_hops |-> merged_req_hops,
         request_hop_start |-> merged_req_start,
         response_hops |-> merged_res_hops,
         response_hop_start |-> merged_res_start,
         request_packet_id |->
             IF merged_req_hops # None
             THEN OptionOr(s.request_packet_id, Some(o.packet_row_id))
             ELSE s.request_packet_id,
         response_packet_id |->
             IF merged_res_hops # None
             THEN OptionOr(s.response_packet_id, Some(o.packet_row_id))
             ELSE s.response_packet_id,
         status |-> traceroute_status(merged_req_hops, merged_res_hops,
                                      Len(o.request_route), Len(o.response_route)),
         sample_count |-> s.sample_count + 1]

\* lines 1452-1486: INSERT INTO traceroute_sessions
InsertSession(o, t) ==
    [trace_key |-> o.trace_key,
     first_seen |-> t,
     last_seen |-> t,
     src_node |-> o.src_node,
     dst_node |-> o.dst_node,
     request_hops |-> o.request_hops,
     request_hop_start |-> o.request_hop_start,
     response_hops |-> o.response_hops,
     response_hop_start |-> o.response_hop_start,
     request_packet_id |-> IF o.request_hops # None THEN Some(o.packet_row_id) ELSE None,
     response_packet_id |-> IF o.response_hops # None THEN Some(o.packet_row_id) ELSE None,
     status |-> traceroute_status(o.request_hops, o.response_hops,
                                  Len(o.request_route), Len(o.response_route)),
     sample_count |-> 1]

\* lines 1492-1505: the rows inserted for one route
HopRows(session_id, direction, route, t, packet_row_id) ==
    [idx \in 1..Len(route) |->
        [session_id |-> session_id,
         direction |-> direction,
         hop_index |-> idx - 1,
         node_id |-> route[idx],
         observed_at |-> t,
         packet_id_ref |-> packet_row_id]]

\* Db::log_traceroute_observation at time t on the tables d = [sessions,
\* hops], without the via_mqtt column
log_traceroute_observation(d, o, t) ==
    LET found == FindSession(d.sessions, o.trace_key)
        sessions == IF found # 0
                    THEN [d.sessions EXCEPT ![found] = UpdateSession(@, o, t)]
                    ELSE Append(d.sessions, InsertSession(o, t))
        session_id == IF found # 0 THEN found ELSE Len(sessions)
    IN  [sessions |-> sessions,
         hops |-> d.hops
                  \o HopRows(session_id, "request", o.request_route, t, o.packet_row_id)
                  \o HopRows(session_id, "response", o.response_route, t, o.packet_row_id)]

\* the nodes of the mesh: the requester 2, the destination 3, a relay 4
\* the session keys of the calls: one request, seen from 2 to 3
ObservationKeys == {traceroute_session_key(2, Some(3), 100)}

\* what one call says of the two sides: a hop count, a route, both sides in
\* full, both sides with other hop counts, or nothing
ObservationSides ==
    {[request_hops |-> a[1], request_hop_start |-> a[2], request_route |-> a[3],
      response_hops |-> a[4], response_hop_start |-> a[5], response_route |-> a[6]] :
        a \in {<<Some(1), Some(3), <<>>, None, None, <<>>>>,
               <<None, None, <<4>>, None, None, <<>>>>,
               <<None, None, <<>>, Some(1), Some(3), <<>>>>,
               <<None, None, <<>>, None, None, <<4>>>>,
               <<Some(1), Some(3), <<4>>, Some(1), Some(3), <<4>>>>,
               <<Some(2), Some(4), <<>>, Some(2), Some(4), <<>>>>,
               <<None, None, <<>>, None, None, <<>>>>}}

\* the arguments of the calls, with the row id of a packet logged before
Observations ==
    {[packet_row_id |-> p, trace_key |-> k, src_node |-> 2, dst_node |-> Some(3),
      request_hops |-> s.request_hops, request_hop_start |-> s.request_hop_start,
      response_hops |-> s.response_hops, response_hop_start |-> s.response_hop_start,
      request_route |-> s.request_route, response_route |-> s.response_route] :
        p \in {1, 2}, k \in ObservationKeys, s \in ObservationSides}

\* the store after Db::new: empty traceroute tables, two packets logged
TraceInit ==
    /\ tr_clock = 0
    /\ tr_ticks = 0
    /\ db_packets = 2
    /\ db_sessions = <<>>
    /\ db_hops = <<>>
    /\ tr_log = <<>>

\* a call of log_traceroute_observation
LogTracerouteObservation(o) ==
    /\ Len(tr_log) < MaxObservations
    /\ LET d == log_traceroute_observation([sessions |-> db_sessions, hops |-> db_hops],
                                           o, tr_clock)
       IN  /\ db_sessions' = d.sessions
           /\ db_hops' = d.hops
    /\ tr_log' = Append(tr_log, [o |-> o, at |-> tr_clock])
    /\ UNCHANGED <<tr_clock, tr_ticks, db_packets>>
    /\ UNCHANGED <<chunkVars, rateVars, queueVars, loopVars, textVars, probeVars, depthVars, runVars, dispatchVars, cooldownVars, incomingVars, keyVars, pollVars>>

\* a second passes between two calls
SessionsTick ==
    /\ tr_ticks < MaxTraceTicks
    /\ tr_ticks' = tr_ticks + 1
    /\ tr_clock' = tr_clock + 1
    /\ UNCHANGED <<db_packets, db_sessions, db_hops, tr_log>>
    /\ UNCHANGED <<chunkVars, rateVars, queueVars, loopVars, textVars, probeVars, depthVars, runVars, dispatchVars, cooldownVars, incomingVars, keyVars, pollVars>>

SessionsNext ==
    \/ \E o \in Observations : LogTracerouteObservation(o)
    \/ SessionsTick

\* ------------------------------------------------------------------------
\* Bot::handle_mesh_packet for Traceroute and Routing packets (incoming.rs)
\* ------------------------------------------------------------------------
\* the packets handled in one run
MaxTracePackets == 2

\* incoming.rs line 401: the age in seconds up to which a session is
\* matched to a routing packet
RoutingMaxAge == 3600

\* Bot::rf_metadata: hop_start.checked_sub(hop_limit) and hop_start
HopCountOf(mesh_packet) ==
    IF mesh_packet.hop_start >= mesh_packet.hop_limit
    THEN Some(mesh_packet.hop_start - mesh_packet.hop_limit) ELSE None
HopStartOf(mesh_packet) ==
    IF mesh_packet.hop_start > 0 THEN Some(mesh_packet.hop_start) ELSE None

\* lines 200-204: to_node
ToNode(mesh_packet) == IF mesh_packet.to = 0 THEN None ELSE Some(mesh_packet.to)

\* Bot::decode_traceroute_routes: <<request_route, response_route>>
decode_traceroute_routes(data) ==
    IF data.variant = "RouteRequest" THEN <<data.route, data.route_back>>
    ELSE IF data.variant = "RouteReply"
    THEN <<(<<>>), IF data.route_back = <<>> THEN data.route ELSE data.route_back>>
    ELSE <<(<<>>), (<<>>)>>

\* Bot::decode_routing_variant, without the name of the variant:
\* <<request_route, response_route>>
decode_routing_variant(data) ==
    IF data.variant = "RouteRequest" THEN <<data.route, data.route_back>>
    ELSE IF data.variant = "RouteReply"
    THEN <<data.route, IF data.route_back = <<>> THEN data.route ELSE data.route_back>>
    ELSE <<(<<>>), (<<>>)>>

\* the last n elements of a sequence
Suffix(s, n) == SubSeq(s, Len(s) - n + 1, Len(s))

\* Db::find_traceroute_session_by_request_mesh_id: the row id of the latest
\* session whose key ends in the request id and that was seen within
\* max_age_secs, 0 when there is none
find_traceroute_session_by_request_mesh_id(sessions, request_id, max_age_secs, t) ==
    LET hits == {id \in 1..Len(sessions) :
                    /\ Suffix(sessions[id].trace_key, 9) = <<":">> \o Hex8(request_id)
                    /\ t - sessions[id].last_seen <= max_age_secs}
    IN  IF hits = {} THEN 0
        ELSE CHOOSE id \in hits : \A other \in hits : other <= id

\* lines 247-358: the Traceroute branch after the packet row is logged, on
\* the tables d
HandleTracerouteApp(d, mesh_packet, packet_row_id, t) ==
    LET routes == decode_traceroute_routes(mesh_packet.data)
        request_route == routes[1]
        response_route == routes[2]
        to_node == ToNode(mesh_packet)
        hop_count == HopCountOf(mesh_packet)
        hop_start == HopStartOf(mesh_packet)
        is_response == mesh_packet.data.request_id # 0
        session_src == IF is_response
                       THEN (IF to_node # None THEN to_node[1] ELSE mesh_packet.from)
                       ELSE mesh_packet.from
        session_dst == IF is_response THEN Some(mesh_packet.from) ELSE to_node
        request_mesh_id == IF is_response THEN mesh_packet.data.request_id
                           ELSE mesh_packet.id
    IN  log_traceroute_observation(d,
            [packet_row_id |-> packet_row_id,
             trace_key |-> traceroute_session_key(session_src, session_dst, request_mesh_id),
             src_node |-> session_src,
             dst_node |-> session_dst,
             request_hops |-> IF is_response THEN None ELSE hop_count,
             request_hop_start |-> IF is_response THEN None ELSE hop_start,
             response_hops |-> IF is_response THEN hop_count ELSE None,
             response_hop_start |-> IF is_response THEN hop_start ELSE None,
             request_route |-> IF is_response THEN <<>> ELSE request_route,
             response_route |->
                 IF is_response /\ response_route = <<>> THEN request_route
                 ELSE response_route],
            t)

\* lines 370-469: the Routing branch after the packet row is logged
HandleRoutingApp(d, mesh_packet, packet_row_id, t) ==
    LET routes == decode_routing_variant(mesh_packet.data)
        found == find_traceroute_session_by_request_mesh_id(
                     d.sessions, mesh_packet.data.request_id, RoutingMaxAge, t)
    IN  IF mesh_packet.data.request_id = 0 \/ found = 0 THEN d
        ELSE log_traceroute_observation(d,
                 [packet_row_id |-> packet_row_id,
                  trace_key |-> d.sessions[found].trace_key,
                  src_node |-> d.sessions[found].src_node,
                  dst_node |-> d.sessions[found].dst_node,
                  request_hops |-> None,
                  request_hop_start |-> None,
                  response_hops |-> HopCountOf(mesh_packet),
                  response_hop_start |-> HopStartOf(mesh_packet),
                  request_route |-> routes[1],
                  response_route |-> routes[2]],
                 t)

\* hop_start and hop_limit of a packet one hop away, and of a packet of a
\* sender that does not set hop_start
HopFields == {<<3, 2>>, <<0, 3>>}

\* protobufs::MeshPacket with its decoded Data
MeshPacket(portnum, from, to, id, hops, request_id, variant, route, route_back) ==
    [portnum |-> portnum, from |-> from, to |-> to, id |-> id,
     hop_start |-> hops[1], hop_limit |-> hops[2],
     data |-> [request_id |-> request_id, variant |-> variant,
               route |-> route, route_back |-> route_back]]

\* traceroute requests from node 2 to node 3 with packet id 100, with and
\* without a relay 4 on the route
TracerouteRequests ==
    {MeshPacket("TracerouteApp", 2, 3, 100, h, 0, "RouteRequest", r, <<>>) :
        h \in HopFields, r \in {<<>>, <<4>>}}

\* the replies of node 3 to request 100
TracerouteReplies ==
    {MeshPacket("TracerouteApp", 3, 2, 200, h, 100, "RouteReply", <<>>, r) :
        h \in HopFields, r \in {<<>>, <<4>>}}

\* routing packets of node 3 that answer request 100, with no route, a
\* route back or a route, and one that answers a request never seen
RoutingPackets ==
    {MeshPacket("RoutingApp", 3, 2, 201, h, 100, v[1], v[2], v[3]) :
        h \in HopFields,
        v \in {<<"ErrorReason", <<>>, <<>>>>, <<"RouteReply", <<>>, <<4>>>>,
               <<"RouteReply", <<4>>, <<>>>>}}
    \cup {MeshPacket("RoutingApp", 3, 2, 202, <<3, 2>>, 101, "ErrorReason", <<>>, <<>>)}

\* the store of a bot that has logged no packet
PacketsInit ==
    /\ tr_clock = 0
    /\ tr_ticks = 0
    /\ db_packets = 0
    /\ db_sessions = <<>>
    /\ db_hops = <<>>
    /\ tr_log = <<>>

\* handle_mesh_packet with a Traceroute packet: log_incoming_packet, then
\* the session
HandleTraceroutePacket(mesh_packet) ==
    /\ Len(tr_log) < MaxTracePackets
    /\ db_packets' = db_packets + 1
    /\ LET d == HandleTracerouteApp([sessions |-> db_sessions, hops |-> db_hops],
                                    mesh_packet, db_packets + 1, tr_clock)
       IN  /\ db_sessions' = d.sessions
           /\ db_hops' = d.hops
    /\ tr_log' = Append(tr_log, [p |-> mesh_packet, at |-> tr_clock])
    /\ UNCHANGED <<tr_clock, tr_ticks>>
    /\ UNCHANGED <<chunkVars, rateVars, queueVars, loopVars, textVars, probeVars, depthVars, runVars, dispatchVars, cooldownVars, incomingVars, keyVars, pollVars>>

\* handle_mesh_packet with a Routing packet
HandleRoutingPacket(mesh_packet) ==
    /\ Len(tr_log) < MaxTracePackets
    /\ db_packets' = db_packets + 1
    /\ LET d == HandleRoutingApp([sessions |-> db_sessions, hops |-> db_hops],
                                 mesh_packet, db_packets + 1, tr_clock)
       IN  /\ db_sessions' = d.sessions
           /\ db_hops' = d.hops
    /\ tr_log' = Append(tr_log, [p |-> mesh_packet, at |-> tr_clock])
    /\ UNCHANGED <<tr_clock, tr_ticks>>
    /\ UNCHANGED <<chunkVars, rateVars, queueVars, loopVars, textVars, probeVars, depthVars, runVars, dispatchVars, cooldownVars, incomingVars, keyVars, pollVars>>

\* time passes between two packets: a second, or more than the age up to
\* which routing packets are matched
TraceTick(secs) ==
    /\ tr_ticks < MaxTraceTicks
    /\ tr_ticks' = tr_ticks + 1
    /\ tr_clock' = tr_clock + secs
    /\ UNCHANGED <<db_packets, db_sessions, db_hops, tr_log>>
    /\ UNCHANGED <<chunkVars, rateVars, queueVars, loopVars, textVars, probeVars, depthVars, runVars, dispatchVars, cooldownVars, incomingVars, keyVars, pollVars>>

TraceNext ==
    \/ \E mesh_packet \in TracerouteRequests \cup TracerouteReplies :
           HandleTraceroutePacket(mesh_packet)
    \/ \E mesh_packet \in RoutingPackets : HandleRoutingPacket(mesh_packet)
    \/ \E secs \in {1, RoutingMaxAge + 1} : TraceTick(secs)

\* ------------------------------------------------------------------------
\* OutgoingQueue::push and pop statement by statement, with the dashboard
\* task reading the depth handle (outgoing.rs, mod.rs, dashboard.rs)
\* ------------------------------------------------------------------------
\* the calls of push and pop in one run, and the loads the dashboard makes
MaxDepthCalls == 4
MaxDepthLoads == 2

\* the messages pushed
DepthMessages == {1, 2}

\* AtomicUsize::fetch_add(1) and fetch_sub(1); a value below 0 stands for
\* the usize that wrapped around
FetchAdd(depth) == depth + 1
FetchSub(depth) == depth - 1

\* OutgoingQueue::new
DepthInit ==
    /\ dq_queue = <<>>
    /\ dq_depth = 0
    /\ dq_pc = "running"
    /\ dq_msg = None
    /\ dq_seen = <<>>
    /\ dq_calls = 0

\* push, line 55: self.queue.lock().unwrap().push_back(msg)
PushBack(msg) ==
    /\ dq_pc = "running"
    /\ dq_calls < MaxDepthCalls
    /\ dq_calls' = dq_calls + 1
    /\ dq_queue' = Append(dq_queue, msg)
    /\ dq_pc' = "push_fetch_add"
    /\ UNCHANGED <<dq_depth, dq_msg, dq_seen>>
    /\ UNCHANGED <<chunkVars, rateVars, queueVars, loopVars, textVars, probeVars, traceVars, runVars, dispatchVars, cooldownVars, incomingVars, keyVars, pollVars>>

\* push, line 56: self.depth.fetch_add(1, Ordering::Relaxed)
PushFetchAdd ==
    /\ dq_pc = "push_fetch_add"
    /\ dq_depth' = FetchAdd(dq_depth)
    /\ dq_pc' = "running"
    /\ UNCHANGED <<dq_queue, dq_msg, dq_seen, dq_calls>>
    /\ UNCHANGED <<chunkVars, rateVars, queueVars, loopVars, textVars, probeVars, traceVars, runVars, dispatchVars, cooldownVars, incomingVars, keyVars, pollVars>>

\* pop, line 60: let msg = self.queue.lock().unwrap().pop_front(); with
\* None the call returns
PopFront ==
    /\ dq_pc = "running"
    /\ dq_calls < MaxDepthCalls
    /\ dq_calls' = dq_calls + 1
    /\ dq_msg' = IF dq_queue = <<>> THEN None ELSE Some(Head(dq_queue))
    /\ dq_queue' = IF dq_queue = <<>> THEN <<>> ELSE Tail(dq_queue)
    /\ dq_pc' = IF dq_queue = <<>> THEN "running" ELSE "pop_fetch_sub"
    /\ UNCHANGED <<dq_depth, dq_seen>>
    /\ UNCHANGED <<chunkVars, rateVars, queueVars, loopVars, textVars, probeVars, traceVars, runVars, dispatchVars, cooldownVars, incomingVars, keyVars, pollVars>>

\* pop, lines 61-64: self.depth.fetch_sub(1, Ordering::Relaxed), and the
\* message is returned
PopFetchSub ==
    /\ dq_pc = "pop_fetch_sub"
    /\ dq_depth' = FetchSub(dq_depth)
    /\ dq_pc' = "running"
    /\ UNCHANGED <<dq_queue, dq_msg, dq_seen, dq_calls>>
    /\ UNCHANGED <<chunkVars, rateVars, queueVars, loopVars, textVars, probeVars, traceVars, runVars, dispatchVars, cooldownVars, incomingVars, keyVars, pollVars>>

\* dashboard.rs line 364: state.queue_depth.load(Ordering::Relaxed) on the
\* task of the dashboard; the load is recorded with the messages that were
\* queued when it was made
DepthLoad ==
    /\ Len(dq_seen) < MaxDepthLoads
    /\ dq_seen' = Append(dq_seen, [depth |-> dq_depth, queued |-> Len(dq_queue),
                                   during |-> dq_pc])
    /\ UNCHANGED <<dq_queue, dq_depth, dq_pc, dq_msg, dq_calls>>
    /\ UNCHANGED <<chunkVars, rateVars, queueVars, loopVars, textVars, probeVars, traceVars, runVars, dispatchVars, cooldownVars, incomingVars, keyVars, pollVars>>

DepthNext ==
    \/ \E msg \in DepthMessages : PushBack(msg)
    \/ PushFetchAdd
    \/ PopFront
    \/ PopFetchSub
    \/ DepthLoad

\* ------------------------------------------------------------------------
\* Bot::run, Bot::connect_and_run and Bot::wait_for_my_node_id (runtime.rs)
\* ------------------------------------------------------------------------
\* the largest reconnect_delay_secs, the calls of connect_and_run that are
\* counted, and the frames before MyInfo
MaxReconnectDelay == 2
MaxRunCalls == 3
MaxSkipped == 1

\* the node numbers MyInfo reports
MyNodeNums == {1, 2}

\* the frames the radio delivers while wait_for_my_node_id runs: a frame
\* other than MyInfo, MyInfo, and the end of the channel
WaitFrames == {<<"Other">>, <<"Closed">>} \cup {<<"MyInfo", n>> : n \in MyNodeNums}

\* the results of connect_and_run
Ok == <<"Ok">>
Err(e) == <<"Err", e>>

\* run returns the error of connect_and_run to its caller
RunMatchPropagates(result) == IF result = Ok THEN "sleep" ELSE "returned"

\* run, lines 109-120: the match on the result of connect_and_run logs and
\* falls through to the sleep; the statement run is at next
RunMatch(result) == "sleep"

\* Bot::run is called
RunInit ==
    /\ run_pc = "connect_and_run"
    /\ run_delay \in 0..MaxReconnectDelay
    /\ run_slept = 0
    /\ run_last = None
    /\ run_calls = 1
    /\ run_node = 0
    /\ run_skipped = 0

\* connect_and_run returns result to run
Returns(result) ==
    /\ run_pc' = RunMatch(result)
    /\ run_last' = Some(result)
    /\ run_slept' = 0
    /\ run_skipped' = 0

\* connect_and_run, line 128: build_tcp_stream(address).await?
BuildTcpStream(ok) ==
    /\ run_pc = "connect_and_run"
    /\ IF ok
       THEN /\ run_pc' = "configure"
            /\ UNCHANGED <<run_last, run_slept, run_skipped>>
       ELSE Returns(Err("connect"))
    /\ UNCHANGED <<run_delay, run_calls, run_node>>
    /\ UNCHANGED <<chunkVars, rateVars, queueVars, loopVars, textVars, probeVars, traceVars, depthVars, dispatchVars, cooldownVars, incomingVars, keyVars, pollVars>>

\* connect_and_run, lines 129-132: stream_api.configure(config_id).await?
Configure(ok) ==
    /\ run_pc = "configure"
    /\ IF ok
       THEN /\ run_pc' = "wait_for_my_node_id"
            /\ UNCHANGED <<run_last, run_slept, run_skipped>>
       ELSE Returns(Err("configure"))
    /\ UNCHANGED <<run_delay, run_calls, run_node>>
    /\ UNCHANGED <<chunkVars, rateVars, queueVars, loopVars, textVars, probeVars, traceVars, depthVars, dispatchVars, cooldownVars, incomingVars, keyVars, pollVars>>

\* wait_for_my_node_id on one frame, and line 137 of connect_and_run
WaitForMyNodeId(frame) ==
    /\ run_pc = "wait_for_my_node_id"
    /\ IF frame[1] = "MyInfo"
       THEN /\ run_pc' = "event_loop"
            /\ run_node' = frame[2]
            /\ UNCHANGED <<run_last, run_slept, run_skipped>>
       ELSE IF frame[1] = "Closed"
       THEN /\ Returns(Err("Channel closed before receiving MyNodeInfo"))
            /\ UNCHANGED run_node
       ELSE /\ run_skipped < MaxSkipped
            /\ run_skipped' = run_skipped + 1
            /\ UNCHANGED <<run_pc, run_last, run_slept, run_node>>
    /\ UNCHANGED <<run_delay, run_calls>>
    /\ UNCHANGED <<chunkVars, rateVars, queueVars, loopVars, textVars, probeVars, traceVars, depthVars, dispatchVars, cooldownVars, incomingVars, keyVars, pollVars>>

\* event_loop, lines 226-234: packet_rx.recv() yields None and the loop
\* returns Ok(())
EventLoopPacketNone ==
    /\ run_pc = "event_loop"
    /\ Returns(Ok)
    /\ UNCHANGED <<run_delay, run_calls, run_node>>
    /\ UNCHANGED <<chunkVars, rateVars, queueVars, loopVars, textVars, probeVars, traceVars, depthVars, dispatchVars, cooldownVars, incomingVars, keyVars, pollVars>>

\* run, line 120: a second of tokio::time::sleep(reconnect_delay) passes
SleepSecond ==
    /\ run_pc = "sleep"
    /\ run_slept < run_delay
    /\ run_slept' = run_slept + 1
    /\ UNCHANGED <<run_pc, run_delay, run_last, run_calls, run_node, run_skipped>>
    /\ UNCHANGED <<chunkVars, rateVars, queueVars, loopVars, textVars, probeVars, traceVars, depthVars, dispatchVars, cooldownVars, incomingVars, keyVars, pollVars>>

\* run, lines 108-109: the sleep is over and the loop calls connect_and_run
SleepOver ==
    /\ run_pc = "sleep"
    /\ run_slept >= run_delay
    /\ run_pc' = "connect_and_run"
    /\ run_calls' = IF run_calls < MaxRunCalls THEN run_calls + 1 ELSE run_calls
    /\ UNCHANGED <<run_delay, run_slept, run_last, run_node, run_skipped>>
    /\ UNCHANGED <<chunkVars, rateVars, queueVars, loopVars, textVars, probeVars, traceVars, depthVars, dispatchVars, cooldownVars, incomingVars, keyVars, pollVars>>

RunNext ==
    \/ \E ok \in BOOLEAN : BuildTcpStream(ok)
    \/ \E ok \in BOOLEAN : Configure(ok)
    \/ \E frame \in WaitFrames : WaitForMyNodeId(frame)
    \/ EventLoopPacketNone
    \/ SleepSecond
    \/ SleepOver

\* ------------------------------------------------------------------------
\* Bot::dispatch_command_from_text, Bot::generate_help_text, ModuleRegistry
\* and CommandScope (command_handler.rs, module.rs, message.rs)
\* ------------------------------------------------------------------------
\* the calls of the dispatcher in one run
MaxDispatches == 2

\* "help" and "No commands available."
HelpCommand == <<104, 101, 108, 112>>
NoCommandsText ==
    <<78, 111, 32, 99, 111, 109, 109, 97, 110, 100, 115, 32,
      97, 118, 97, 105, 108, 97, 98, 108, 101, 46>>

\* max_message_len: none, one that splits every help text, and one that
\* holds "No commands available."
DispatchBudgets == {0, 5, Len(NoCommandsText)}

\* the reply id a module sets by itself
ModuleReplyId == 7

\* every scope allows every message
AllowsAll(scope, is_dm) == TRUE

\* CommandScope::allows
allows(scope, is_dm) ==
    IF scope = "Public" THEN ~is_dm
    ELSE IF scope = "DM" THEN is_dm
    ELSE TRUE

\* implementations of trait Module: name, description, commands and scope
ModuleOf(name, commands, scope) ==
    [name |-> name, description |-> <<100>>, commands |-> commands, scope |-> scope]

\* a module with one command "e" that answers the sender, for every scope
EchoModule(scope) == ModuleOf("echo", <<(<<101>>)>>, scope)
\* a module whose first response carries a reply id of its own
TaggedModule == ModuleOf("tagged", <<(<<116>>)>>, "Both")
\* a module whose second response carries a reply id of its own
LateModule == ModuleOf("late", <<(<<117>>)>>, "Both")
\* a module with the commands "q", "x" and "z" that answers Ok(None), Err
\* and Ok(Some(vec![]))
MultiModule == ModuleOf("multi", <<(<<113>>), (<<120>>), (<<122>>)>>, "Both")
\* a module without commands, as the welcome module
SilentModule == ModuleOf("silent", <<>>, "Both")
\* modules/help.rs: the module that lists "help"
HelpModule == ModuleOf("help", <<HelpCommand>>, "Both")

\* Module::handle_command of these modules: <<"Some", responses>>,
\* <<"None">> or <<"Err">>
handle_command(module, command, args, ctx) ==
    LET R(reply_id) == [text |-> ShortText, destination |-> <<"Sender">>,
                        channel |-> ctx.channel, reply_id |-> reply_id]
    IN  IF module.name = "echo" THEN <<"Some", <<R(None)>>>>
        ELSE IF module.name = "tagged"
        THEN <<"Some", <<R(Some(ModuleReplyId)), R(None)>>>>
        ELSE IF module.name = "late"
        THEN <<"Some", <<R(None), R(Some(ModuleReplyId))>>>>
        ELSE IF module.name = "multi"
        THEN (IF command = <<113>> THEN <<"None">>
              ELSE IF command = <<120>> THEN <<"Err">>
              ELSE <<"Some", <<>>>>)
        ELSE <<"Some", <<[text |-> <<>>, destination |-> <<"Sender">>,
                          channel |-> ctx.channel, reply_id |-> None]>>>>

\* the registries a bot is built with, in the order of registration
Registries ==
    {<<>>,
     <<SilentModule>>,
     <<EchoModule("Public")>>,
     <<EchoModule("DM"), HelpModule>>,
     <<EchoModule("Both"), TaggedModule>>,
     <<LateModule, MultiModule>>}

\* slice::contains
Contains(s, x) == \E k \in 1..Len(s) : s[k] = x

\* ModuleRegistry::find_by_command: the index of the first module that
\* lists the command, 0 for None
find_by_command(registry, command) ==
    IF \E m \in 1..Len(registry) : Contains(registry[m].commands, command)
    THEN CHOOSE m \in 1..Len(registry) :
             /\ Contains(registry[m].commands, command)
             /\ \A k \in 1..(m - 1) : ~Contains(registry[k].commands, command)
    ELSE 0

RECURSIVE Join(_, _)
\* [String]::join
Join(ss, sep) ==
    IF ss = <<>> THEN <<>>
    ELSE IF Len(ss) = 1 THEN ss[1]
    ELSE ss[1] \o sep \o Join(Tail(ss), sep)

\* generate_help_text, lines 79-87: the line of one module
HelpLine(module, prefix) ==
    Join([k \in 1..Len(module.commands) |-> prefix \o module.commands[k]], <<44, 32>>)
        \o <<32, 45, 32>> \o module.description

\* Bot::generate_help_text
generate_help_text(registry, prefix) ==
    LET HasCommands(module) == module.commands # <<>>
        exposing == SelectSeq(registry, HasCommands)
        lines == [k \in 1..Len(exposing) |-> HelpLine(exposing[k], prefix)]
    IN  IF lines = <<>> THEN NoCommandsText ELSE Join(lines, <<LF>>)

\* the first response is tagged whatever reply_id it has
TagFirstAlways(responses, ctx) ==
    IF responses # <<>>
    THEN [responses EXCEPT ![1].reply_id = Some(ctx.packet_id)]
    ELSE responses

\* lines 49-53: the first response is tagged as a reply unless it has a
\* reply_id
TagFirst(responses, ctx) ==
    IF responses # <<>> /\ responses[1].reply_id = None
    THEN [responses EXCEPT ![1].reply_id = Some(ctx.packet_id)]
    ELSE responses

\* the help response carries no reply id
HelpResponseNoReply(help_text, ctx) ==
    [text |-> help_text, destination |-> <<"Sender">>,
     channel |-> ctx.channel, reply_id |-> None]

\* lines 26-31: the response of the help command
HelpResponse(help_text, ctx) ==
    [text |-> help_text, destination |-> <<"Sender">>,
     channel |-> ctx.channel, reply_id |-> Some(ctx.packet_id)]

\* the limiter is asked before the text is parsed
ParsedOrLimited(parsed) == Some(<<(<<>>), (<<>>)>>)

\* lines 13-16: what the rate limiter is asked for
Parsed(parsed) == parsed

\* Bot::dispatch_command_from_text on b = [q, commands, invoked] at time
\* now, with the registry and the configuration of the bot
dispatch_command_from_text(b, registry, prefix, max_commands, window_secs, max_message_len, now, my_node_id, ctx, trimmed_text, is_dm) ==
    LET parsed == parse_command(trimmed_text, prefix)
    IN  IF Parsed(parsed) = None THEN b
        ELSE
        LET command == parsed[1][1]
            args == parsed[1][2]
            limit == check(b.commands, max_commands, window_secs, ctx.sender_id, now)
            b1 == [b EXCEPT !.commands = limit.commands]
            found == find_by_command(registry, command)
        IN  IF ~limit.admitted \/ parsed = None THEN b1
            ELSE IF command = HelpCommand
            THEN [b1 EXCEPT !.q = queue_responses(
                      b1.q, ctx,
                      <<HelpResponse(generate_help_text(registry, prefix), ctx)>>,
                      my_node_id, max_message_len)]
            ELSE IF found = 0 THEN b1
            ELSE IF ~allows(registry[found].scope, is_dm) THEN b1
            ELSE LET result == handle_command(registry[found], command, args, ctx)
                     b2 == [b1 EXCEPT !.invoked =
                               Append(@, [module |-> found, command |-> command,
                                          args |-> args])]
                 IN  IF result[1] = "Some"
                     THEN [b2 EXCEPT !.q = queue_responses(
                               b2.q, ctx, TagFirst(result[2], ctx),
                               my_node_id, max_message_len)]
                     ELSE b2

\* the texts the text handler hands to the dispatcher, trimmed: "!help",
\* "help", "!e a", "e", "a !e", "!t", "!u", "!q", "!x", "!z" and "!n" (a
\* command of no module)
DispatchTexts ==
    {<<33>> \o HelpCommand, HelpCommand,
     <<33, 101, 32, 97>>, <<101>>, <<97, 32, 33, 101>>,
     <<33, 116>>, <<33, 117>>, <<33, 113>>, <<33, 120>>, <<33, 122>>,
     <<33, 110>>}

\* Bot::new with a registry, a budget and a rate limit of none or one
\* command per window
DispatchInit ==
    /\ cfg_max_message_len \in DispatchBudgets
    /\ local_node_id = 1
    /\ outgoing = EmptyQueue
    /\ q_popped = <<>>
    /\ q_last_pop = None
    /\ q_offered = FALSE
    /\ q_call = None
    /\ r_max \in {0, 1}
    /\ r_window = MaxRateWindow
    /\ r_commands = [n \in {} |-> <<>>]
    /\ r_now = 0
    /\ r_calls = <<>>
    /\ dsp_registry \in Registries
    /\ dsp_invoked = <<>>
    /\ dsp_last = None
    /\ dsp_calls = 0

\* the text handler calls the dispatcher
DispatchCommandFromText(ctx, trimmed_text, is_dm) ==
    /\ dsp_calls < MaxDispatches
    /\ dsp_calls' = dsp_calls + 1
    /\ LET b == dispatch_command_from_text(
                    [q |-> outgoing, commands |-> r_commands, invoked |-> dsp_invoked],
                    dsp_registry, CommandPrefix, r_max, r_window, cfg_max_message_len,
                    r_now, local_node_id, ctx, trimmed_text, is_dm)
       IN  /\ outgoing' = b.q
           /\ r_commands' = b.commands
           /\ dsp_invoked' = b.invoked
    /\ dsp_last' = Some([ctx |-> ctx, text |-> trimmed_text, is_dm |-> is_dm,
                         pushed |-> Len(outgoing.log), invoked |-> Len(dsp_invoked),
                         commands |-> r_commands, at |-> r_now])
    /\ UNCHANGED <<cfg_max_message_len, local_node_id, q_popped, q_last_pop, q_offered,
                   q_call, r_max, r_window, r_now, r_calls, dsp_registry>>
    /\ UNCHANGED <<chunkVars, loopVars, textVars, probeVars, traceVars, depthVars, runVars, cooldownVars, incomingVars, keyVars, pollVars>>

\* the window of the rate limiter passes
WindowPasses ==
    /\ r_now < r_window
    /\ r_now' = r_now + r_window
    /\ UNCHANGED <<r_max, r_window, r_commands, r_calls>>
    /\ UNCHANGED <<chunkVars, queueVars, loopVars, textVars, probeVars, traceVars, depthVars, runVars, dispatchVars, cooldownVars, incomingVars, keyVars, pollVars>>

DispatchNext ==
    \/ \E ctx \in Contexts(local_node_id), trimmed_text \in DispatchTexts,
          is_dm \in BOOLEAN :
           DispatchCommandFromText(ctx, trimmed_text, is_dm)
    \/ WindowPasses

\* ------------------------------------------------------------------------
\* Bot::maybe_queue_traceroute_probe (runtime.rs) over TracerouteState
\* (traceroute_state.rs), on the timer of every connection of one bot
\* ------------------------------------------------------------------------
\* the seconds the clock runs
MaxProbeClock == 4

\* the probes queued in one run
MaxProbes == 3

\* the nodes the store offers as candidates
ProbeTargets == {2, 3}

\* the local node, as in StoreOf
ProbeLocalNode == 1

\* per_node_cooldown_secs as configured
Cooldowns == {0, 2, 3}

\* what recent_rf_nodes_missing_hops finds, last seen first
ProbeStores == {<<>>, <<2>>, <<3>>, <<2, 3>>, <<3, 2>>}

\* TracerouteState::can_send, lines 16-22, for every node at once: the
\* nodes with an entry in last_sent whose elapsed time is below the cooldown
CoolingAt(last_sent, now, cooldown_secs) ==
    {target \in DOMAIN last_sent :
        /\ last_sent[target] # None
        /\ now - last_sent[target][1] < cooldown_secs}

\* the first instant marked for a node is kept
MarkSentOnce(last_sent, target, now) ==
    IF last_sent[target] # None THEN last_sent
    ELSE [last_sent EXCEPT ![target] = Some(now)]

\* TracerouteState::mark_sent, lines 24-29: insert(target, Instant::now())
mark_sent(last_sent, target, now) ==
    [last_sent EXCEPT ![target] = Some(now)]

RECURSIVE SelectFrom(_, _, _, _)
\* select_probe_target_adaptive, from the window k on
SelectFrom(store, cooling, k, st) ==
    IF k > Len(limits) THEN ProbeSelection(None, st)
    ELSE LET limit == limits[k]
             candidates == fetch_candidates(store, limit)
             st1 == [st EXCEPT !.queried_limits = @ + 1]
             st2 == [st1 EXCEPT !.had_candidates = TRUE]
             r == ScanCandidates(candidates, cooling, 1,
                                 [st |-> st2, checks |-> <<>>, target |-> None])
         IN  IF candidates = <<>> THEN ProbeSelection(None, st1)
             ELSE IF r.target # None THEN ProbeSelection(r.target, r.st)
             ELSE IF Len(candidates) < limit THEN ProbeSelection(None, r.st)
             ELSE SelectFrom(store, cooling, k + 1, r.st)

\* select_probe_target_adaptive(&limits, fetch_candidates, can_send)
select_probe_target_adaptive(store, cooling) ==
    SelectFrom(store, cooling, 1,
               [seen |-> {}, cooldown_skipped |-> 0, queried_limits |-> 0,
                had_candidates |-> FALSE])

\* the probe of lines 373-384
TracerouteProbe(cfg, my_node_id, target) ==
    [kind |-> "Traceroute", target_node |-> target, text |-> <<>>,
     destination |-> <<"Node", target>>, channel |-> cfg.mesh_channel,
     from_node |-> my_node_id, to_node |-> Some(target),
     mesh_channel |-> cfg.mesh_channel, reply_id |-> None]

\* Bot::new: an empty last_sent; the clock at 0
CooldownInit ==
    /\ tc_now = 0
    /\ tc_cfg \in [enabled : BOOLEAN,
                   per_node_cooldown_secs : Cooldowns,
                   mesh_channel : {0, MaxMeshChannel + 1}]
    /\ traceroute = [target \in ProbeTargets |-> None]
    /\ tc_conn = 1
    /\ tc_probes = <<>>
    /\ tc_marks = <<>>

\* the traceroute timer fires: maybe_queue_traceroute_probe on what the
\* store finds; took seconds pass between the push and mark_sent
MaybeQueueTracerouteProbe(store, query_ok, took) ==
    /\ tc_cfg.enabled
    /\ Len(tc_probes) < MaxProbes
    /\ tc_now + took <= MaxProbeClock
    /\ LET cooling == CoolingAt(traceroute, tc_now, tc_cfg.per_node_cooldown_secs)
           selection == select_probe_target_adaptive(store, cooling)
           queued == /\ query_ok
                     /\ selection.had_candidates
                     /\ selection.target # None
                     /\ MeshChannelOk(tc_cfg.mesh_channel)
           target == selection.target[1]
       IN  IF queued
           THEN /\ tc_probes' = Append(tc_probes,
                       [msg |-> TracerouteProbe(tc_cfg, ProbeLocalNode, target),
                        at |-> tc_now, conn |-> tc_conn])
                /\ traceroute' = mark_sent(traceroute, target, tc_now + took)
                /\ tc_marks' = Append(tc_marks, [target |-> target, at |-> tc_now + took])
                /\ tc_now' = tc_now + took
           ELSE /\ took = 0
                /\ UNCHANGED <<tc_probes, traceroute, tc_marks, tc_now>>
    /\ UNCHANGED <<tc_cfg, tc_conn>>
    /\ UNCHANGED <<chunkVars, rateVars, queueVars, loopVars, textVars, probeVars, traceVars, depthVars, runVars, dispatchVars, incomingVars, keyVars, pollVars>>

\* a second passes
CooldownTick ==
    /\ tc_now < MaxProbeClock
    /\ tc_now' = tc_now + 1
    /\ UNCHANGED <<tc_cfg, traceroute, tc_conn, tc_probes, tc_marks>>
    /\ UNCHANGED <<chunkVars, rateVars, queueVars, loopVars, textVars, probeVars, traceVars, depthVars, runVars, dispatchVars, incomingVars, keyVars, pollVars>>

\* connect_and_run returns and run calls it again on the same Bot
Reconnect ==
    /\ tc_conn < MaxConnections
    /\ tc_conn' = tc_conn + 1
    /\ UNCHANGED <<tc_now, tc_cfg, traceroute, tc_probes, tc_marks>>
    /\ UNCHANGED <<chunkVars, rateVars, queueVars, loopVars, textVars, probeVars, traceVars, depthVars, runVars, dispatchVars, incomingVars, keyVars, pollVars>>

CooldownNext ==
    \/ \E store \in ProbeStores, query_ok \in BOOLEAN, took \in 0..1 :
           MaybeQueueTracerouteProbe(store, query_ok, took)
    \/ CooldownTick
    \/ Reconnect

\* ------------------------------------------------------------------------
\* Bot::handle_mesh_packet (incoming.rs) on the packets of every port, and
\* the nodes table (db.rs)
\* ------------------------------------------------------------------------
\* the rows the packets table takes
MaxLoggedPackets == 2

\* the nodes that send: one that may have a row and one more
IncomingSenders == {2, 3}

\* Db::update_position as an insert-or-update
UpdatePositionUpserts(db, node_id, lat, lon) ==
    [nodes |-> db.nodes \cup {node_id},
     positions |-> [n \in db.nodes \cup {node_id} |->
                       IF n = node_id THEN Some(<<lat, lon>>) ELSE db.positions[n]]]

\* Db::update_position, db.rs lines 463-476: UPDATE nodes SET latitude,
\* longitude WHERE node_id; a node without a row is left without one
update_position(db, node_id, lat, lon) ==
    IF node_id \in db.nodes
    THEN [db EXCEPT !.positions[node_id] = Some(<<lat, lon>>)]
    ELSE db

\* the payload of a Position packet: bytes that do not decode, a position
\* without latitude, the position 0,0, and a position; latitude_i and
\* longitude_i in units of 1e-7 degrees
PositionPayloads ==
    {None,
     Some([latitude_i |-> None, longitude_i |-> Some(121)]),
     Some([latitude_i |-> Some(0), longitude_i |-> Some(0)]),
     Some([latitude_i |-> Some(25), longitude_i |-> Some(121)])}

\* protobufs::MeshPacket of the ports that are logged only: encrypted or
\* decoded, NodeinfoApp standing for the ports of the default branch
LoggedPackets ==
    [portnum : {"PositionApp"}, from : IncomingSenders, to : {0}, id : {300},
     decoded : BOOLEAN, payload : PositionPayloads]
    \cup [portnum : {"TelemetryApp", "NeighborinfoApp", "NodeinfoApp"},
          from : IncomingSenders, to : {0}, id : {300},
          decoded : {TRUE}, payload : {None}]

\* lines 207-235: the PositionApp branch after log_incoming_packet
HandlePositionApp(db, mesh_packet) ==
    IF mesh_packet.payload = None THEN db
    ELSE LET pos == mesh_packet.payload[1]
         IN  IF pos.latitude_i # None /\ pos.longitude_i # None
                /\ (pos.latitude_i[1] # 0 \/ pos.longitude_i[1] # 0)
             THEN update_position(db, mesh_packet.from,
                                  pos.latitude_i[1], pos.longitude_i[1])
             ELSE db

\* the text packets handled next to the other ports
IncomingTextPackets ==
    {p \in TextPackets(1) : p.to = 0 /\ p.payload \in {<<97>>, <<255>>}}

\* the traceroute and routing packets handled next to the other ports
IncomingTracePackets ==
    {p \in TracerouteRequests \cup TracerouteReplies \cup RoutingPackets :
        p.hop_start = 3 /\ p.data.route = <<>> /\ p.data.route_back = <<>>}

\* a bot whose nodes table holds rows for some of the senders, from their
\* NodeInfo frames, without positions; no packet logged
IncomingInit ==
    /\ db_nodes \in SUBSET IncomingSenders
    /\ db_positions = [n \in db_nodes |-> None]
    /\ in_last = None
    /\ clock = 0
    /\ l_pc = "idle"
    /\ startup_state = [connected_at |-> <<>>, deferred_events |-> <<>>]
    /\ grace_timer = 0
    /\ grace_period_done = FALSE
    /\ send_timer = 0
    /\ bridge_active = FALSE
    /\ l_conn = [id |-> 0, at |-> 0]
    /\ l_rx = <<>>
    /\ l_trace = <<>>
    /\ l_last_send = <<>>

\* handle_mesh_packet with a packet of the Position, Telemetry,
\* Neighborinfo or another port: lines 194-197, then log_incoming_packet
\* and for a position update_position
HandleMeshPacket(mesh_packet) ==
    /\ db_packets < MaxLoggedPackets
    /\ IF ~mesh_packet.decoded
       THEN /\ in_last' = Some([p |-> mesh_packet, row |-> None])
            /\ UNCHANGED <<db_packets, db_nodes, db_positions>>
       ELSE /\ db_packets' = db_packets + 1
            /\ in_last' = Some([p |-> mesh_packet, row |-> Some(db_packets + 1)])
            /\ LET db == [nodes |-> db_nodes, positions |-> db_positions]
                   r == IF mesh_packet.portnum = "PositionApp"
                        THEN HandlePositionApp(db, mesh_packet)
                        ELSE db
               IN  /\ db_nodes' = r.nodes
                   /\ db_positions' = r.positions
    /\ UNCHANGED <<tr_clock, tr_ticks, db_sessions, db_hops, tr_log>>
    /\ UNCHANGED <<clock, l_pc, startup_state, grace_timer, grace_period_done, send_timer, bridge_active, l_conn, l_rx, l_trace, l_last_send>>
    /\ UNCHANGED <<chunkVars, rateVars, queueVars, textVars, probeVars, depthVars, runVars, dispatchVars, cooldownVars, keyVars, pollVars>>

IncomingNext ==
    \/ \E mesh_packet \in LoggedPackets : HandleMeshPacket(mesh_packet)
    \/ \E mesh_packet \in IncomingTracePackets :
           mesh_packet.portnum = "TracerouteApp" /\ HandleTraceroutePacket(mesh_packet)
    \/ \E mesh_packet \in IncomingTracePackets :
           mesh_packet.portnum = "RoutingApp" /\ HandleRoutingPacket(mesh_packet)
    \/ \E mesh_packet \in IncomingTextPackets : HandleTextMessage(mesh_packet)

\* ------------------------------------------------------------------------
\* Bot::traceroute_session_key (bot/mod.rs) on the triples of a domain
\* ------------------------------------------------------------------------
\* source nodes, among them 0xAAAA and 0x12345678
KeySources == {1, 2, 43690, 305419896}

\* destinations: none, and among the nodes 0xBBBB
KeyDestinations == {None, Some(3), Some(48059)}

\* request mesh ids: one digit, 100, 0xff, and an id of eight hex digits
KeyRequestIds == {0, 9, 100, 255, 305419896}

\* the triple is chosen, the key not yet computed
KeyInit ==
    /\ key_args \in [src_node : KeySources, dst_node : KeyDestinations,
                     request_mesh_id : KeyRequestIds]
    /\ key_result = None

\* traceroute_session_key is called on the triple
TracerouteSessionKey ==
    /\ key_result = None
    /\ key_result' = Some(traceroute_session_key(key_args.src_node,
                              key_args.dst_node, key_args.request_mesh_id))
    /\ UNCHANGED key_args
    /\ UNCHANGED <<chunkVars, rateVars, queueVars, loopVars, textVars, probeVars, traceVars, depthVars, runVars, dispatchVars, cooldownVars, incomingVars, pollVars>>

KeyNext == TracerouteSessionKey

\* ------------------------------------------------------------------------
\* Specifications
\* ------------------------------------------------------------------------
vars ==
    <<chunkVars, rateVars, queueVars, loopVars, textVars, probeVars, traceVars,
      depthVars, runVars, dispatchVars,
      cooldownVars,
      incomingVars,
      keyVars,
      pollVars>>

\* the chunker alone
InitChunk ==
    ChunkInit /\ RateIdle /\ QueueIdle /\ LoopIdle /\ TextIdle /\ ProbeIdle
        /\ TraceIdle /\ DepthIdle /\ RunIdle /\ DispatchIdle
        /\ CooldownIdle
        /\ IncomingIdle
        /\ KeyIdle
        /\ PollIdle

\* the rate limiter alone
InitRate ==
    RateInit /\ ChunkIdle /\ QueueIdle /\ LoopIdle /\ TextIdle /\ ProbeIdle
        /\ TraceIdle /\ DepthIdle /\ RunIdle /\ DispatchIdle
        /\ CooldownIdle
        /\ IncomingIdle
        /\ KeyIdle
        /\ PollIdle

\* the outgoing queue alone
InitQueue ==
    QueueInit /\ ChunkIdle /\ RateIdle /\ LoopIdle /\ TextIdle /\ ProbeIdle
        /\ TraceIdle /\ DepthIdle /\ RunIdle /\ DispatchIdle
        /\ CooldownIdle
        /\ IncomingIdle
        /\ KeyIdle
        /\ PollIdle

\* the bot in its event loop
InitLoop ==
    LoopInit /\ ChunkIdle /\ RateIdle /\ TextIdle /\ ProbeIdle /\ TraceIdle
        /\ DepthIdle /\ RunIdle /\ DispatchIdle
        /\ CooldownIdle
        /\ IncomingIdle
        /\ KeyIdle
        /\ PollIdle

\* the text handler of a bot with the node id that MyInfo reported
InitText ==
    TextInit /\ ChunkIdle /\ RateIdle /\ LoopIdle /\ ProbeIdle /\ TraceIdle
        /\ DepthIdle /\ RunIdle /\ DispatchIdle
        /\ CooldownIdle
        /\ IncomingIdle
        /\ KeyIdle
        /\ PollIdle

\* the probe selector on a store and a cooldown map
InitProbe ==
    ProbeInit /\ ChunkIdle /\ RateIdle /\ QueueIdle /\ LoopIdle /\ TextIdle
        /\ TraceIdle /\ DepthIdle /\ RunIdle /\ DispatchIdle
        /\ CooldownIdle
        /\ IncomingIdle
        /\ KeyIdle
        /\ PollIdle

\* the store with empty traceroute tables
InitSessions ==
    TraceInit /\ ChunkIdle /\ RateIdle /\ QueueIdle /\ LoopIdle /\ TextIdle
        /\ ProbeIdle /\ DepthIdle /\ RunIdle /\ DispatchIdle
        /\ CooldownIdle
        /\ IncomingIdle
        /\ KeyIdle
        /\ PollIdle

\* the bot's store before the first packet
InitTrace ==
    PacketsInit /\ ChunkIdle /\ RateIdle /\ QueueIdle /\ LoopIdle /\ TextIdle
        /\ ProbeIdle /\ DepthIdle /\ RunIdle /\ DispatchIdle
        /\ CooldownIdle
        /\ IncomingIdle
        /\ KeyIdle
        /\ PollIdle

\* the empty queue of a new bot
InitDepth ==
    DepthInit /\ ChunkIdle /\ RateIdle /\ QueueIdle /\ LoopIdle /\ TextIdle
        /\ ProbeIdle /\ RunIdle /\ DispatchIdle /\ TraceIdle
        /\ CooldownIdle
        /\ IncomingIdle
        /\ KeyIdle
        /\ PollIdle

\* run is called on a new bot
InitRun ==
    RunInit /\ ChunkIdle /\ RateIdle /\ QueueIdle /\ LoopIdle /\ TextIdle
        /\ ProbeIdle /\ DispatchIdle /\ TraceIdle /\ DepthIdle
        /\ CooldownIdle
        /\ IncomingIdle
        /\ KeyIdle
        /\ PollIdle

\* a bot with its registry, an empty queue and an empty rate limiter
InitDispatch ==
    DispatchInit /\ ChunkIdle /\ LoopIdle /\ TextIdle /\ ProbeIdle
        /\ TraceIdle /\ DepthIdle /\ RunIdle
        /\ CooldownIdle
        /\ IncomingIdle
        /\ KeyIdle
        /\ PollIdle

\* the probe timer of one bot over its connections
InitCooldown ==
    CooldownInit /\ ChunkIdle /\ RateIdle /\ QueueIdle /\ LoopIdle /\ TextIdle
        /\ ProbeIdle /\ TraceIdle /\ DepthIdle /\ RunIdle /\ DispatchIdle
        /\ IncomingIdle
        /\ KeyIdle
        /\ PollIdle

\* the packet handler of a bot that knows some of the senders
InitIncoming ==
    IncomingInit /\ PacketsInit /\ TextInit /\ ChunkIdle /\ RateIdle
        /\ ProbeIdle /\ DepthIdle /\ RunIdle /\ DispatchIdle /\ CooldownIdle
        /\ KeyIdle
        /\ PollIdle

\* the session key of one triple
InitKey ==
    KeyInit /\ ChunkIdle /\ RateIdle /\ QueueIdle /\ LoopIdle /\ TextIdle
        /\ ProbeIdle /\ TraceIdle /\ DepthIdle /\ RunIdle /\ DispatchIdle
        /\ CooldownIdle /\ IncomingIdle
        /\ PollIdle

\* chunk_message on every text and budget within the bounds
SpecChunk == InitChunk /\ [][ChunkNext]_vars

\* the chunker runs to completion: every enabled step is eventually taken
FairSpecChunk == SpecChunk /\ WF_vars(ChunkNext)

\* the rate limiter under every schedule of calls and clock ticks
SpecRate == InitRate /\ [][RateNext]_vars

\* the outgoing queue under every order of enqueueing calls and pops
SpecQueue == InitQueue /\ [][QueueNext]_vars

\* queue_responses under every destination, reply id and budget, with the
\* pops of the send timer in between
SpecRespond == InitQueue /\ [][RespondNext]_vars

\* handle_text_message on every text packet of the domain, one packet after
\* another
SpecText == InitText /\ [][TextNext]_vars

\* select_probe_target_adaptive on every store of up to MaxCandidates
\* nodes, window by window
SpecProbe == InitProbe /\ [][ProbeNext]_vars

\* log_traceroute_observation under every sequence of up to MaxObservations
\* calls
SpecSessions == InitSessions /\ [][SessionsNext]_vars

\* the Traceroute and Routing branches of handle_mesh_packet on every
\* sequence of up to MaxTracePackets packets
SpecTrace == InitTrace /\ [][TraceNext]_vars

\* the pushes and pops of the bot task statement by statement, interleaved
\* with the loads of the dashboard task
SpecDepth == InitDepth /\ [][DepthNext]_vars

\* run under every outcome of connecting, configuring, waiting for MyInfo
\* and the event loop
SpecRun == InitRun /\ [][RunNext]_vars

\* the timer of the sleep fires: a second that can pass does pass, and a
\* sleep that is over ends
FairSpecRun == SpecRun /\ WF_vars(SleepSecond) /\ WF_vars(SleepOver)

\* dispatch_command_from_text on every text of the domain, within a window
\* of the rate limiter and after it
SpecDispatch == InitDispatch /\ [][DispatchNext]_vars

\* handle_bridge_message on every bridge message of the domain, with the
\* pops of the send timer in between
SpecBridge == InitQueue /\ [][BridgeNext]_vars

\* the event loop of one bot over its connections, under every interleaving
\* of the branches of select! and of the clock
SpecLoop == InitLoop /\ [][LoopNext]_vars

\* the grace branch is ready: the timer is due and the branch not taken yet
GraceDue == l_pc = "loop" /\ ~grace_period_done /\ clock >= grace_timer

\* a step of GraceTimerFires, the only step that sets grace_period_done
GraceBranchTaken == GraceDue /\ grace_period_done' = TRUE

\* the event loop with time passing, the grace branch taken once it is
\* ready, and run connecting again
FairSpecLoop ==
    /\ SpecLoop
    /\ WF_vars(Tick) /\ WF_vars(Connect) /\ WF_grace_period_done(GraceBranchTaken)

\* the step-by-step run returns what chunk_message returns
StepsAgree == c_pc = "done" => c_result = chunk_message(c_text, c_max)

\* maybe_queue_traceroute_probe at any second, on every store and cooldown
\* of the domain, over the connections of one Bot
SpecCooldown == InitCooldown /\ [][CooldownNext]_vars

\* handle_mesh_packet on packets of every port from senders with and
\* without a row in the nodes table
SpecIncoming == InitIncoming /\ [][IncomingNext]_vars

\* traceroute_session_key on every triple of the domain
SpecKey == InitKey /\ [][KeyNext]_vars

\* ------------------------------------------------------------------------
\* Properties of the chunker
\* ------------------------------------------------------------------------
ChunkDone == c_pc = "done" /\ c_max >= 1

HasLineFeed(text) == \E i \in 1..Len(text) : text[i] = LF

IsLineTerminator(b) == b = LF \/ b = CR

NotLineTerminator(b) == ~IsLineTerminator(b)

\* the text without its '\n' and '\r' bytes
WithoutTerminators(text) == SelectSeq(text, NotLineTerminator)

RECURSIVE IsUtf8From(_, _)
\* the bytes of s from position i on are whole, well-formed codepoints
IsUtf8From(s, i) ==
    IF i > Len(s) THEN TRUE
    ELSE LET w == len_utf8(s[i])
         IN  /\ ~IsContinuation(s[i])
             /\ i + w - 1 <= Len(s)
             /\ \A k \in (i + 1)..(i + w - 1) : IsContinuation(s[k])
             /\ IsUtf8From(s, i + w)

\* String::from_utf8(s) succeeds
IsUtf8(s) == IsUtf8From(s, 1)

\* s is the encoding of exactly one codepoint
IsOneCodepoint(s) == s # <<>> /\ IsUtf8(s) /\ Len(s) = len_utf8(s[1])

\* the lead bytes in s of codepoints wider than max_len
OversizeLeads(s, max_len) ==
    {i \in 1..Len(s) : ~IsContinuation(s[i]) /\ len_utf8(s[i]) > max_len}

RECURSIVE CountOversize(_, _)
CountOversize(ss, max_len) ==
    IF ss = <<>> THEN 0
    ELSE Cardinality(OversizeLeads(Head(ss), max_len)) + CountOversize(Tail(ss), max_len)

\* C2 as stated: for every text, single-line or multi-line, and every
\* max_bytes >= 1 the chunks of chunk_message concatenate to the text.
C2_RoundTripAnyText == ChunkDone => Concat(c_result) = c_text

\* C2, amended: for every max_bytes >= 1 the chunks concatenate to the text
\* when the text holds no line feed or fits the budget; for every text the
\* chunks hold the bytes of the text that are no line terminator, in order.
C2_RoundTripSingleLine ==
    ChunkDone =>
        /\ (~HasLineFeed(c_text) \/ Len(c_text) <= c_max) => Concat(c_result) = c_text
        /\ WithoutTerminators(Concat(c_result)) = WithoutTerminators(c_text)

\* a single-line text longer than the budget has been split and put together
C2_Witness ==
    /\ ChunkDone
    /\ ~HasLineFeed(c_text)
    /\ Len(c_result) >= 2
    /\ Concat(c_result) = c_text

\* C3 as stated: for every text and every max_bytes >= 1 every chunk has at
\* most max_bytes bytes.
C3_ChunkWithinBudget ==
    ChunkDone => \A i \in 1..Len(c_result) : Len(c_result[i]) <= c_max

\* C3, amended: for every text and every max_bytes >= 1 every chunk has at most
\* max_bytes bytes, or is one single codepoint whose encoding is longer than
\* max_bytes.
C3_ChunkWithinBudgetOrOneChar ==
    ChunkDone =>
        \A i \in 1..Len(c_result) :
            \/ Len(c_result[i]) <= c_max
            \/ IsOneCodepoint(c_result[i])

\* a multi-line text has been joined and split into chunks that fill the budget
C3_Witness ==
    /\ ChunkDone
    /\ HasLineFeed(c_text)
    /\ Len(c_result) >= 2
    /\ \E i \in 1..Len(c_result) :
           Len(c_result[i]) = c_max /\ HasLineFeed(c_result[i])

\* C4: for every text and every max_bytes >= 1 every chunk starts and ends on a
\* codepoint boundary: each chunk is well-formed UTF-8 on its own.
C4_ChunksAreUtf8 ==
    ChunkDone => \A i \in 1..Len(c_result) : IsUtf8(c_result[i])

\* a line of multi-byte characters was cut where a byte cut would split one
C4_Witness ==
    /\ ChunkDone
    /\ Len(c_result) >= 2
    /\ Len(c_text) > c_max
    /\ IsContinuation(c_text[c_max + 1])

\* C5: chunk_message terminates for every text and every max_bytes >= 1, each
\* iteration of the splitter consumes at least one codepoint, and a codepoint
\* wider than max_bytes is returned as a chunk of its own.
C5_Progress ==
    /\ <>(c_pc = "done")
    /\ [][(c_pc = "split" /\ c_pc' = "split") => c_start' > c_start]_vars
    /\ [](ChunkDone =>
            /\ CountOversize(c_result, c_max) = CountOversize(<<c_text>>, c_max)
            /\ \A i \in 1..Len(c_result) :
                   OversizeLeads(c_result[i], c_max) # {} => IsOneCodepoint(c_result[i]))

\* two codepoints wider than the budget came back as two chunks
C5_Witness ==
    /\ ChunkDone
    /\ CountOversize(<<c_text>>, c_max) >= 2
    /\ Len(c_result) >= 2

\* ------------------------------------------------------------------------
\* Properties of the rate limiter
\* ------------------------------------------------------------------------
\* the admitted calls of call k's sender made before call k and less than one
\* window before it
AdmittedWithinWindow(k) ==
    {j \in 1..(k - 1) :
        /\ r_calls[j].node = r_calls[k].node
        /\ r_calls[j].admitted
        /\ r_calls[k].at - r_calls[j].at < r_window}

\* the calls of call k's sender made before call k
EarlierCalls(k) == {j \in 1..(k - 1) : r_calls[j].node = r_calls[k].node}

\* C7: with max = M > 0 and window = W, a call is admitted when fewer than M
\* admitted calls of its sender lie less than W before it and denied otherwise:
\* the first M calls of a sender are admitted, the (M+1)-th within W is denied,
\* and the sender is admitted again once W has passed since the oldest of the
\* M admitted calls.
C7_SlidingWindow ==
    r_max > 0 =>
        \A k \in 1..Len(r_calls) :
            /\ r_calls[k].admitted <=> Cardinality(AdmittedWithinWindow(k)) < r_max
            /\ Cardinality(EarlierCalls(k)) < r_max => r_calls[k].admitted
            /\ (/\ Cardinality(EarlierCalls(k)) = r_max
                /\ \A j \in EarlierCalls(k) : r_calls[k].at - r_calls[j].at < r_window)
               => ~r_calls[k].admitted
            /\ \A d \in EarlierCalls(k) :
                   (/\ ~r_calls[d].admitted
                    /\ EarlierCalls(k) \cap (d + 1)..k = {}
                    /\ \E j \in AdmittedWithinWindow(d) :
                           /\ \A i \in AdmittedWithinWindow(d) : j <= i
                           /\ r_calls[k].at - r_calls[j].at >= r_window)
                   => r_calls[k].admitted

\* a sender was denied and, one window after its oldest admitted call, admitted
C7_Witness ==
    /\ r_max > 0
    /\ r_window > 0
    /\ \E d, k \in 1..Len(r_calls) :
           /\ d < k
           /\ r_calls[d].node = r_calls[k].node
           /\ ~r_calls[d].admitted
           /\ r_calls[k].admitted
           /\ Cardinality(AdmittedWithinWindow(d)) = r_max
           /\ \E j \in AdmittedWithinWindow(d) :
                  r_calls[k].at - r_calls[j].at = r_window

\* ------------------------------------------------------------------------
\* Properties of the outgoing queue
\* ------------------------------------------------------------------------
\* the messages pushed so far, in push order
Pushed == [i \in 1..Len(outgoing.log) |-> outgoing.log[i].msg]

\* the step is a pop that returned something, or the first pop that did not
IsPop == q_popped' # q_popped \/ q_last_pop' # q_last_pop

\* C1: the pops return the pushed messages in push order: what was popped,
\* followed by what is queued, is what was pushed, the depth counter is the
\* number of messages not yet popped, and a pop after the last pushed message
\* was popped returns None and leaves the depth at 0.
C1_FifoDrain ==
    /\ [](/\ Pushed = q_popped \o outgoing.queue
          /\ outgoing.depth = Len(Pushed) - Len(q_popped))
    /\ [][IsPop =>
            IF Len(q_popped) < Len(Pushed)
            THEN /\ q_last_pop' = Some(Pushed[Len(q_popped) + 1])
                 /\ q_popped' = Append(q_popped, Pushed[Len(q_popped) + 1])
            ELSE /\ q_last_pop' = None
                 /\ q_popped' = q_popped
                 /\ outgoing'.depth = 0]_vars

\* several different messages were pushed and popped, and one more pop
\* returned None
C1_Witness ==
    /\ Len(Pushed) >= 3
    /\ Pushed[1] # Pushed[2]
    /\ q_popped = Pushed
    /\ q_last_pop = None
    /\ outgoing.depth = 0

\* what chunk_message returns with a budget of 0, for every text
ZeroBudgetChunks == {chunk_message(text, 0) : text \in Texts \cup ResponseTexts}

\* the pushes that queue_responses made
FromResponse(i) == outgoing.log[i].src.from = "response"

\* C6: chunk_message(text, 0) is the empty list for every text, and with
\* max_message_len = 0 no call of queue_responses enqueues anything.
C6_ZeroBudget ==
    /\ ZeroBudgetChunks \subseteq {<<>>}
    /\ cfg_max_message_len = 0 => \A i \in 1..Len(outgoing.log) : ~FromResponse(i)

\* queue_responses was given responses with a valid channel, max_message_len
\* is 0, and the queue holds nothing of them
C6_Witness ==
    /\ cfg_max_message_len = 0
    /\ q_offered
    /\ \A i \in 1..Len(outgoing.log) : ~FromResponse(i)

\* pushes i and j were made by the same call of queue_responses
SameCall(i, j) ==
    /\ FromResponse(i) /\ FromResponse(j)
    /\ outgoing.log[i].src.call = outgoing.log[j].src.call

\* C10: the chunks of the responses of one call of queue_responses are queued
\* response by response in the order of the list, each response's chunks next
\* to each other in chunk order, with no other message between them; the
\* queue holds the pushed messages in push order.
C10_ResponsesContiguousInOrder ==
    /\ \A i, j \in 1..Len(outgoing.log) :
           (i < j /\ SameCall(i, j)) =>
               LET a == outgoing.log[i].src
                   b == outgoing.log[j].src
               IN  /\ a.resp < b.resp \/ (a.resp = b.resp /\ a.chunk < b.chunk)
                   /\ \A k \in i..j : SameCall(i, k)
                   /\ (j = i + 1 /\ a.resp = b.resp) => b.chunk = a.chunk + 1
                   /\ (j = i + 1 /\ a.resp # b.resp) => b.chunk = 0
    /\ \A i \in 1..Len(outgoing.log) :
           FromResponse(i) =>
               LET a == outgoing.log[i].src
                   chunks == chunk_message(a.whole, cfg_max_message_len)
               IN  /\ a.chunk < Len(chunks)
                   /\ outgoing.log[i].msg.text = chunks[a.chunk + 1]
                   /\ (i = 1 \/ ~SameCall(i - 1, i)) => a.chunk = 0
    /\ outgoing.queue =
           SubSeq(Pushed, Len(Pushed) - Len(outgoing.queue) + 1, Len(Pushed))

\* one call queued the two chunks of a response A and then a response B
C10_Witness ==
    \E i \in 1..Len(outgoing.log) :
        /\ i + 2 <= Len(outgoing.log)
        /\ SameCall(i, i + 1) /\ SameCall(i, i + 2)
        /\ outgoing.log[i].src.resp = outgoing.log[i + 1].src.resp
        /\ outgoing.log[i + 1].src.chunk = 1
        /\ outgoing.log[i + 2].src.resp > outgoing.log[i].src.resp
        /\ Len(outgoing.queue) = Len(outgoing.log)

\* ------------------------------------------------------------------------
\* Properties of the event loop
\* ------------------------------------------------------------------------
\* frame f of this connection arrived while its grace period was running and
\* is about another node than the local one
ArrivedInGrace(f) == f.node # local_node_id /\ f.grace

RECURSIVE DeferredNodes(_)
\* the nodes of the frames that arrived in the grace period, in the order
\* of arrival
DeferredNodes(rx) ==
    IF rx = <<>> THEN <<>>
    ELSE (IF ArrivedInGrace(Head(rx)) THEN <<Head(rx).node>> ELSE <<>>)
             \o DeferredNodes(Tail(rx))

RECURSIVE DispatchThenUpsert(_)
\* each node's event is dispatched and the node is then upserted
DispatchThenUpsert(ns) ==
    IF ns = <<>> THEN <<>>
    ELSE <<<<"dispatch", Head(ns)>>, <<"upsert", Head(ns)>>>>
             \o DispatchThenUpsert(Tail(ns))

\* the step handles a NodeInfo frame
IsNodeInfo == Len(l_rx') = Len(l_rx) + 1

\* the step is the grace branch of the loop
IsGraceFire == ~grace_period_done /\ grace_period_done' /\ l_conn' = l_conn

\* C8: a NodeInfo frame for another node than the local one that arrives
\* within startup_grace_secs of the connection dispatches no event, upserts
\* no node and queues nothing; when the grace timer fires, the events of
\* exactly the frames that arrived in the grace period of this connection are
\* dispatched in the order of arrival, each node is upserted after its event
\* is dispatched, and no deferred event is left.
C8_GraceDefersThenDispatches ==
    /\ [][(IsNodeInfo /\ ArrivedInGrace(l_rx'[Len(l_rx')]))
            => /\ l_trace' = <<>>
               /\ db_nodes' = db_nodes
               /\ outgoing' = outgoing]_vars
    /\ [][IsGraceFire
            => /\ l_trace' = DispatchThenUpsert(DeferredNodes(l_rx))
               /\ \A i \in 1..Len(DeferredNodes(l_rx)) :
                      DeferredNodes(l_rx)[i] \in db_nodes'
               /\ startup_state'.deferred_events = <<>>]_vars

\* on a second connection the grace timer fired and dispatched the events of
\* two different nodes that were unknown until then
C8_Witness ==
    /\ l_conn.id = 2
    /\ grace_period_done
    /\ Len(l_trace) = 4
    /\ l_trace[1] = <<"dispatch", l_rx[1].node>>
    /\ l_trace[3] = <<"dispatch", l_rx[2].node>>
    /\ l_rx[1].node # l_rx[2].node
    /\ Len(outgoing.queue) >= 2

\* the step is a radio send
IsSend == q_popped' # q_popped \/ l_last_send' # l_last_send

\* C9: the send branch fires only with a non-empty queue and not before the
\* deadline of the send timer; a firing pops and sends the message at the
\* head of the queue and no other, and sets the timer to the time after the
\* send plus send_delay; two consecutive sends of one connection are at least
\* send_delay apart.
C9_SendsSpacedBySendDelay ==
    /\ [][IsSend
            => /\ outgoing.queue # <<>>
               /\ clock >= send_timer
               /\ outgoing'.queue = Tail(outgoing.queue)
               /\ outgoing'.depth = outgoing.depth - 1
               /\ q_popped' = Append(q_popped, Head(outgoing.queue))
               /\ l_last_send' # None
               /\ l_last_send'[1].at = clock
               /\ l_last_send'[1].conn = l_conn.id
               /\ send_timer' = clock' + SendDelay
               /\ (l_last_send # None /\ l_last_send[1].conn = l_conn.id)
                      => clock >= l_last_send[1].at + SendDelay]_vars
    /\ [][outgoing'.queue = outgoing.queue \/ IsSend
            \/ Len(outgoing'.queue) > Len(outgoing.queue)]_vars

\* two messages were sent on the first connection, the second one as soon
\* as the timer allowed, and a message is still queued
C9_Witness ==
    /\ l_conn.id = 1
    /\ l_pc = "loop"
    /\ Len(q_popped) >= 2
    /\ l_last_send # None
    /\ send_timer = l_last_send[1].at + SendDelay
    /\ outgoing.queue # <<>>

\* ------------------------------------------------------------------------
\* Claims about the destination and reply id of queued responses
\* ------------------------------------------------------------------------
\* the pushes of the last call of queue_responses
LastCallPushes ==
    IF q_call = None THEN {}
    ELSE {i \in 1..Len(outgoing.log) :
              /\ outgoing.log[i].src.from = "response"
              /\ outgoing.log[i].src.call = q_call[1].call}

\* the response a push of the last call belongs to
ResponseOf(i) == q_call[1].responses[outgoing.log[i].src.resp]

\* what the destination of a response makes of to_node
ExpectedToNode(ctx, response) ==
    CASE response.destination = <<"Sender">> -> Some(ctx.sender_id)
      [] response.destination = <<"Broadcast">> -> None
      [] OTHER -> Some(response.destination[2])

\* C11: every chunk queued for a response has to_node = Some(ctx.sender_id)
\* for Sender, None for Broadcast and Some(x) for Node(x), and mesh_channel
\* equal to the channel of the response
C11_DestinationMapped ==
    \A i \in LastCallPushes :
        /\ outgoing.log[i].msg.to_node = ExpectedToNode(q_call[1].ctx, ResponseOf(i))
        /\ outgoing.log[i].msg.mesh_channel = ResponseOf(i).channel

\* one call queued chunks for a Sender, a Broadcast response, and one call
\* queued two chunks for a Node response to a node other than the sender
C11_Witness ==
    /\ q_call # None
    /\ \/ /\ \E i \in LastCallPushes : ResponseOf(i).destination = <<"Sender">>
          /\ \E i \in LastCallPushes : ResponseOf(i).destination = <<"Broadcast">>
       \/ \E i \in LastCallPushes :
              /\ ResponseOf(i).destination[1] = "Node"
              /\ ResponseOf(i).destination[2] # q_call[1].ctx.sender_id
              /\ outgoing.log[i].src.chunk = 1

\* C12: of the chunks of a response, chunk 0 carries the reply_id of the
\* response and every later chunk carries None
C12_ReplyIdOnFirstChunk ==
    \A i \in LastCallPushes :
        outgoing.log[i].msg.reply_id =
            IF outgoing.log[i].src.chunk = 0 THEN ResponseOf(i).reply_id ELSE None

\* a response with a reply id was queued in two chunks or more
C12_Witness ==
    \E i, j \in LastCallPushes :
        /\ outgoing.log[i].src.resp = outgoing.log[j].src.resp
        /\ outgoing.log[i].src.chunk = 0
        /\ outgoing.log[j].src.chunk = 1
        /\ ResponseOf(i).reply_id # None
        /\ outgoing.log[i].msg.reply_id = ResponseOf(i).reply_id

\* ------------------------------------------------------------------------
\* Claims about the texts handed to the bridges
\* ------------------------------------------------------------------------
\* the last packet was addressed to the local node
LastIsDm == t_last[1].packet.to = local_node_id

\* the payload of the last packet begins with a bridge marker
LastHasMarker ==
    \/ starts_with(t_last[1].packet.payload, TgMarker)
    \/ starts_with(t_last[1].packet.payload, DcMarker)

\* C13: a text packet is sent on the mesh-to-bridge channel only if it is
\* no DM and its text does not begin with "[TG:" or "[DC:"; the channel
\* holds nothing else
C13_NoMarkerRepublished ==
    /\ t_last # None /\ t_last[1].sent => ~LastIsDm /\ ~LastHasMarker
    /\ \A k \in 1..Len(mesh_to_bridge) :
           /\ ~mesh_to_bridge[k].is_dm
           /\ \E p \in TextPayloads :
                  /\ from_utf8_ok(p)
                  /\ ~starts_with(p, TgMarker) /\ ~starts_with(p, DcMarker)
                  /\ mesh_to_bridge[k].text = trim(p)

\* a public text that begins with "[DC:" was handled by a bot with a
\* subscribed bridge and was not sent, after a public text was sent
C13_Witness ==
    /\ t_last # None
    /\ bridge_tx = Some(1)
    /\ t_last[1].packet.to # local_node_id
    /\ starts_with(t_last[1].packet.payload, DcMarker)
    /\ ~t_last[1].sent
    /\ Len(mesh_to_bridge) = 1


\* C38: no message on the mesh-to-bridge channel has a text that begins
\* with "[TG:" or "[DC:", also when the inbound text has whitespace before
\* the marker (the text published is the trimmed text)
C38_NoPublishedTextBeginsWithMarker ==
    \A k \in 1..Len(mesh_to_bridge) :
        /\ ~starts_with(mesh_to_bridge[k].text, TgMarker)
        /\ ~starts_with(mesh_to_bridge[k].text, DcMarker)

\* the last packet handled was addressed to a node other than the local one
LastToOtherNode ==
    /\ t_last # None
    /\ t_last[1].packet.to # 0
    /\ t_last[1].packet.to # local_node_id

\* C39: a text packet addressed to a specific node other than the local
\* node is treated as private: it is not published to the bridges
C39_OtherNodesTextIsPrivate ==
    LastToOtherNode => ~t_last[1].sent
\* ------------------------------------------------------------------------
\* Claims about the probe selector
\* ------------------------------------------------------------------------
\* the positions of the store whose node is not under cooldown
FreeAt(store, cooling) == {i \in 1..Len(store) : store[i] \notin cooling}

\* the most recently seen node of the first `most` of the store that is not
\* under cooldown
FirstFree(store, cooling, most) ==
    LET free == {i \in FreeAt(store, cooling) : i <= most}
    IN  IF free = {} THEN None
        ELSE Some(store[CHOOSE i \in free : \A j \in free : i <= j])

\* the largest window
LargestLimit == limits[Len(limits)]

C15_ExpandOnlyOnFullPage ==
    /\ \A k \in 1..Len(p_queries) :
           /\ p_queries[k].limit = limits[k]
           /\ k > 1 => p_queries[k - 1].rows = limits[k - 1]
    /\ Len(p_queries) > 1 =>
           \A i \in 1..limits[Len(p_queries) - 1] : p_store[i] \in p_cooling
    /\ \A i, j \in 1..Len(p_checks) : p_checks[i] = p_checks[j] => i = j
    /\ p_pc = "done" =>
           \/ p_result[1].target # None
           \/ p_queries[Len(p_queries)].rows < p_queries[Len(p_queries)].limit
           \/ Len(p_queries) = Len(limits)
    /\ p_pc = "done" => p_result[1].queried_limits = Len(p_queries)

\* the selector queried a second window after a full first page and
\* stopped at the second, short page
C15_Witness ==
    /\ p_pc = "done"
    /\ Len(p_queries) = 2
    /\ p_queries[2].rows < p_queries[2].limit
    /\ Len(p_checks) = p_queries[2].rows


\* the selector returned no target although the store returned candidates
AllInCooldown ==
    /\ p_pc = "done"
    /\ p_result[1].target = None
    /\ p_result[1].had_candidates

\* the number of candidates the largest window of runtime.rs line 301 holds
MaxScanned == 100

HopsOf(id, direction) ==
    {h \in 1..Len(db_hops) :
        db_hops[h].session_id = id /\ db_hops[h].direction = direction}

\* the session holds evidence of the request side, of the response side
RequestEvidence(id) ==
    db_sessions[id].request_hops # None \/ HopsOf(id, "request") # {}
ResponseEvidence(id) ==
    db_sessions[id].response_hops # None \/ HopsOf(id, "response") # {}

\* C16: after any sequence of log_traceroute_observation calls, a session
\* has status "complete" if and only if it holds request-side evidence and
\* response-side evidence, a hop count or a hop row
C16_CompleteIffBothSides ==
    \A id \in 1..Len(db_sessions) :
        db_sessions[id].status = "complete"
            <=> (RequestEvidence(id) /\ ResponseEvidence(id))

\* an observation of the request side only, of the response side only
RequestOnly(o) ==
    /\ o.request_hops # None \/ o.request_route # <<>>
    /\ o.response_hops = None /\ o.response_route = <<>>
ResponseOnly(o) ==
    /\ o.response_hops # None \/ o.response_route # <<>>
    /\ o.request_hops = None /\ o.request_route = <<>>

\* C17: a session created by an observation of the request side only has
\* status "partial", and has status "complete" once the response is
\* observed under the same trace_key
C17_PartialThenComplete ==
    /\ Len(tr_log) = 1 /\ RequestOnly(tr_log[1].o)
           => db_sessions[1].status = "partial"
    /\ (/\ Len(tr_log) = 2
        /\ RequestOnly(tr_log[1].o)
        /\ ResponseOnly(tr_log[2].o)
        /\ tr_log[2].o.trace_key = tr_log[1].o.trace_key)
           => db_sessions[1].status = "complete"

\* the last two calls made the same observation of the request side, with
\* the same packet row id
RequestRepeated ==
    /\ Len(tr_log) >= 2
    /\ tr_log[Len(tr_log)].o = tr_log[Len(tr_log) - 1].o
    /\ RequestOnly(tr_log[Len(tr_log)].o)

\* C18: repeating a request observation with the same packet row id sets
\* last_seen to the time of the repeat, adds one to sample_count and adds
\* no request-direction hop row a second time
C18_RepeatAddsNoHopRows ==
    RequestRepeated =>
        LET id == FindSession(db_sessions, tr_log[Len(tr_log)].o.trace_key)
        IN  /\ db_sessions[id].last_seen = tr_log[Len(tr_log)].at
            /\ db_sessions[id].sample_count =
                   Cardinality({k \in 1..Len(tr_log) :
                                    tr_log[k].o.trace_key = db_sessions[id].trace_key})
            /\ \A g, h \in HopsOf(id, "request") :
                   (/\ db_hops[g].hop_index = db_hops[h].hop_index
                    /\ db_hops[g].node_id = db_hops[h].node_id
                    /\ db_hops[g].packet_id_ref = db_hops[h].packet_id_ref)
                       => g = h

\* the session that the call of this step is merged into, 0 when the call
\* inserts one
MergedInto ==
    IF Len(tr_log') > Len(tr_log)
    THEN FindSession(db_sessions, tr_log'[Len(tr_log')].o.trace_key)
    ELSE 0

\* C28: on merging an observation into an existing session the hop counts
\* and hop starts stored are the new ones if non-null, else the existing
\* ones, so a non-null value is never replaced by null, and
\* request_packet_id and response_packet_id, once non-null, never change
C28_MergeKeepsKnown ==
    [][MergedInto # 0 =>
        LET was == db_sessions[MergedInto]
            is == db_sessions'[MergedInto]
            o == tr_log'[Len(tr_log')].o
        IN  /\ \A f \in {"request_hops", "request_hop_start",
                          "response_hops", "response_hop_start"} :
                   is[f] = IF o[f] # None THEN o[f] ELSE was[f]
            /\ \A f \in {"request_packet_id", "response_packet_id"} :
                   was[f] # None => is[f] = was[f]]_vars

\* a request with a hop count of 1 was followed by a response-only
\* observation of another packet and by a request with a hop count of 2:
\* the session holds the hop count 2, the response hops, and the packet id
\* of the first request
C28_Witness ==
    /\ Len(tr_log) = 3
    /\ tr_log[1].o.request_hops = Some(1) /\ tr_log[1].o.response_hops = None
    /\ tr_log[2].o.request_hops = None /\ tr_log[2].o.response_hops = Some(1)
    /\ tr_log[3].o.request_hops = Some(2)
    /\ tr_log[2].o.packet_row_id # tr_log[1].o.packet_row_id
    /\ tr_log[3].o.packet_row_id # tr_log[1].o.packet_row_id
    /\ Len(db_sessions) = 1
    /\ db_sessions[1].request_hops = Some(2)
    /\ db_sessions[1].request_packet_id = Some(tr_log[1].o.packet_row_id)
    /\ db_sessions[1].response_packet_id = Some(tr_log[2].o.packet_row_id)


\* observed, then partial, then complete
StatusRank(status) ==
    IF status = "complete" THEN 2 ELSE IF status = "partial" THEN 1 ELSE 0

\* C40: a session's status never regresses under the observations merged
\* into it: once complete it stays complete, and once partial it never
\* returns to observed
C40_StatusNeverRegresses ==
    [][MergedInto # 0 =>
           StatusRank(db_sessions'[MergedInto].status)
               >= StatusRank(db_sessions[MergedInto].status)]_vars
\* ------------------------------------------------------------------------
\* Claims about the correlation of traceroute and routing packets
\* ------------------------------------------------------------------------
\* the first packet was a traceroute request, the second a packet of a kind
FirstIsRequest == Len(tr_log) >= 1 /\ tr_log[1].p \in TracerouteRequests
RequestThenReply ==
    Len(tr_log) = 2 /\ FirstIsRequest /\ tr_log[2].p \in TracerouteReplies
RequestThenRouting ==
    /\ Len(tr_log) = 2 /\ FirstIsRequest /\ tr_log[2].p \in RoutingPackets
    /\ tr_log[2].p.data.request_id = tr_log[1].p.id
    /\ tr_log[2].at - tr_log[1].at <= RoutingMaxAge

\* the hop rows of a direction: node and index, in the order of insertion
HopList(direction) ==
    LET Pick(h) == db_hops[h].direction = direction
        rows == SelectSeq([h \in 1..Len(db_hops) |-> h], Pick)
    IN  [k \in 1..Len(rows) |-> <<db_hops[rows[k]].hop_index, db_hops[rows[k]].node_id>>]

\* a route as hop rows indexed from 0
Indexed(route) == [k \in 1..Len(route) |-> <<k - 1, route[k]>>]

\* C19: a traceroute request from S to D with packet id R and a route,
\* followed by a traceroute packet from D to S with request_id R and a route
\* back, leaves one session keyed by (S, D, R) with status "complete",
\* sample_count 2, the route as request hops and the route back as response
\* hops, indexed from 0
C19_RequestAndReplyOneSession ==
    (RequestThenReply /\ tr_log[1].p.data.route # <<>>
                      /\ tr_log[2].p.data.route_back # <<>>) =>
        /\ Len(db_sessions) = 1
        /\ db_sessions[1].trace_key =
               traceroute_session_key(tr_log[1].p.from, Some(tr_log[1].p.to), tr_log[1].p.id)
        /\ db_sessions[1].status = "complete"
        /\ db_sessions[1].sample_count = 2
        /\ HopList("request") = Indexed(tr_log[1].p.data.route)
        /\ HopList("response") = Indexed(tr_log[2].p.data.route_back)

\* the routing packet was merged into the session of the request
RoutingMerged ==
    /\ Len(db_sessions) = 1
    /\ db_sessions[1].trace_key =
           traceroute_session_key(tr_log[1].p.from, Some(tr_log[1].p.to), tr_log[1].p.id)
    /\ db_sessions[1].last_seen = tr_log[2].at
    /\ db_sessions[1].sample_count = 2

C21_DepthIsQueueLength ==
    /\ \A i \in 1..Len(dq_seen) : dq_seen[i].depth = dq_seen[i].queued
    /\ dq_depth >= 0

\* the counter never wraps and agrees with the deque between the calls
DepthAgreesBetweenCalls ==
    /\ dq_depth >= 0
    /\ dq_pc = "running" => dq_depth = Len(dq_queue)

\* ------------------------------------------------------------------------
\* Claims about the reconnect loop
\* ------------------------------------------------------------------------
\* connect_and_run returns in this step
ConnectAndRunReturns == run_last' # run_last \/ (run_pc # "sleep" /\ run_pc' = "sleep")

\* C22: run never returns: every time connect_and_run returns, with an
\* error or cleanly, run sleeps reconnect_delay_secs and then calls
\* connect_and_run again
C22_RunReconnectsForever ==
    /\ [](run_pc # "returned")
    /\ [][ConnectAndRunReturns => (run_pc' = "sleep" /\ run_slept' = 0)]_vars
    /\ [][(run_pc = "sleep" /\ run_pc' # "sleep") =>
              (run_pc' = "connect_and_run" /\ run_slept = run_delay)]_vars
    /\ [](run_pc = "sleep" => <>(run_pc = "connect_and_run"))

\* connect_and_run was called again after a clean close that followed a
\* sleep of two seconds
C22_Witness ==
    /\ run_pc = "connect_and_run"
    /\ run_calls = 3
    /\ run_last = Some(Ok)
    /\ run_delay = 2
    /\ run_slept = 2

\* ------------------------------------------------------------------------
\* Claims about the command dispatcher
\* ------------------------------------------------------------------------
\* the last call of the dispatcher, the first token of its text, the
\* command in it, and what the call pushed
Dispatched == dsp_last # None
LastCall == dsp_last[1]
FirstToken(text) ==
    IF FirstSpace(text) = 0 THEN text ELSE SubSeq(text, 1, FirstSpace(text) - 1)
LastIsCommand == starts_with(FirstToken(LastCall.text), CommandPrefix)
LastCommand ==
    SubSeq(FirstToken(LastCall.text), Len(CommandPrefix) + 1,
           Len(FirstToken(LastCall.text)))
LastPushed == (LastCall.pushed + 1)..Len(outgoing.log)
LastMessages == [k \in 1..(Len(outgoing.log) - LastCall.pushed) |->
                    outgoing.log[LastCall.pushed + k].msg]
LastInvoked == Len(dsp_invoked) > LastCall.invoked

\* the rate limiter admitted the sender of the last call
LastAdmitted ==
    \/ r_max = 0
    \/ Len(Retain(EntryOrDefault(LastCall.commands, LastCall.ctx.sender_id),
                  LastCall.at, r_window)) < r_max

AdmittedHelp == Dispatched /\ LastIsCommand /\ LastCommand = HelpCommand /\ LastAdmitted

\* no module of the registry exposes a command
NoModuleExposes == \A m \in 1..Len(dsp_registry) : dsp_registry[m].commands = <<>>

\* the messages of the last call are the chunks of text, addressed to the
\* sender on the channel of the context, the first a reply to the packet
HelpQueuedAs(text) ==
    /\ [k \in 1..Len(LastMessages) |-> LastMessages[k].text]
           = chunk_message(text, cfg_max_message_len)
    /\ \A k \in 1..Len(LastMessages) :
           /\ LastMessages[k].to_node = Some(LastCall.ctx.sender_id)
           /\ LastMessages[k].destination = <<"Node", LastCall.ctx.sender_id>>
           /\ LastMessages[k].mesh_channel = LastCall.ctx.channel
           /\ LastMessages[k].reply_id =
                  IF k = 1 THEN Some(LastCall.ctx.packet_id) ELSE None

\* C23 as stated: for an admitted help command the help text is enqueued,
\* addressed to the sender on ctx.channel with reply_id = ctx.packet_id on
\* its first chunk, whatever the registry; with no module exposing a
\* command the text is "No commands available." and exactly one message is
\* queued
C23_HelpQueuedOnce ==
    AdmittedHelp =>
        /\ LastMessages # <<>>
        /\ HelpQueuedAs(generate_help_text(dsp_registry, CommandPrefix))
        /\ NoModuleExposes =>
               /\ Len(LastMessages) = 1
               /\ LastMessages[1].text = NoCommandsText

\* C23, amended: for an admitted help command the chunks of the help text
\* are enqueued, addressed to the sender on ctx.channel, with reply_id =
\* ctx.packet_id on the first chunk only, whatever the registry; with no
\* module exposing a command the text is "No commands available.", queued
\* as exactly one message when max_message_len holds its 22 bytes
C23_HelpQueuedInChunks ==
    AdmittedHelp =>
        /\ HelpQueuedAs(generate_help_text(dsp_registry, CommandPrefix))
        /\ NoModuleExposes =>
               /\ HelpQueuedAs(NoCommandsText)
               /\ cfg_max_message_len >= Len(NoCommandsText) =>
                      /\ Len(LastMessages) = 1
                      /\ LastMessages[1].text = NoCommandsText

\* help was admitted on a public channel of a bot whose only command is
\* for direct messages, and the help text went out in several chunks, the
\* first a reply to the packet
C23_Witness ==
    /\ AdmittedHelp
    /\ ~LastCall.is_dm
    /\ Len(dsp_registry) = 2 /\ dsp_registry[1].scope = "DM"
    /\ Len(LastMessages) > 1
    /\ LastMessages[1].reply_id = Some(LastCall.ctx.packet_id)
    /\ LastMessages[2].reply_id = None

\* the last call invoked a module, which returned Some(responses)
LastModule == dsp_registry[dsp_invoked[Len(dsp_invoked)].module]
LastResult ==
    handle_command(LastModule, dsp_invoked[Len(dsp_invoked)].command,
                   dsp_invoked[Len(dsp_invoked)].args, LastCall.ctx)
ModuleAnswered == Dispatched /\ LastInvoked /\ LastResult[1] = "Some"

\* the texts pushed for response r of the last call, in order
TextsOf(r) ==
    LET Of(e) == e.src.resp = r
        pushes == SelectSeq(SubSeq(outgoing.log, LastCall.pushed + 1, Len(outgoing.log)), Of)
    IN  [k \in 1..Len(pushes) |-> pushes[k].msg.text]

\* C24: when a module returns Some(responses), the first response gets
\* reply_id = ctx.packet_id only if it has none, the reply_id of the later
\* responses is left as it is, and all responses are enqueued
C24_FirstReplyTagged ==
    ModuleAnswered =>
        /\ \A i \in LastPushed :
               LET a == outgoing.log[i].src
                   given == LastResult[2][a.resp].reply_id
               IN  outgoing.log[i].msg.reply_id =
                       IF a.chunk # 0 THEN None
                       ELSE IF a.resp = 1 /\ given = None
                       THEN Some(LastCall.ctx.packet_id)
                       ELSE given
        /\ \A r \in 1..Len(LastResult[2]) :
               TextsOf(r) = chunk_message(LastResult[2][r].text, cfg_max_message_len)

\* a module answered with a first response that carries a reply id of its
\* own and a second without: both are queued as they are
C24_Witness ==
    /\ ModuleAnswered
    /\ LastModule.name = "tagged"
    /\ Len(LastMessages) = 2
    /\ LastMessages[1].reply_id = Some(ModuleReplyId)
    /\ LastMessages[2].reply_id = None

\* the module the registry finds for the command of the last call
LastFound == find_by_command(dsp_registry, LastCommand)
Rejected ==
    /\ Dispatched /\ LastIsCommand
    /\ \/ LastFound = 0
       \/ ~(CASE dsp_registry[LastFound].scope = "Public" -> ~LastCall.is_dm
              [] dsp_registry[LastFound].scope = "DM" -> LastCall.is_dm
              [] OTHER -> TRUE)
NothingDone ==
    /\ ~LastInvoked
    /\ Len(outgoing.log) = LastCall.pushed

\* an admitted command of a module with scope Both is handed to the module
BothAllows ==
    (/\ Dispatched /\ LastIsCommand /\ LastAdmitted /\ LastCommand # HelpCommand
     /\ LastFound # 0 /\ dsp_registry[LastFound].scope = "Both") => LastInvoked

\* C25 as stated: a command whose module's scope does not allow the channel
\* kind, or for which no module is registered, invokes no module and leaves
\* the outgoing queue unchanged; scope Both allows both kinds
C25_RejectedLeavesQueue ==
    /\ Rejected => NothingDone
    /\ BothAllows

\* C25, amended: a command other than the reserved help whose module's
\* scope does not allow the channel kind, or for which no module is
\* registered, invokes no module and leaves the outgoing queue unchanged;
\* scope Both allows both kinds
C25_RejectedUnlessHelp ==
    /\ (Rejected /\ LastCommand # HelpCommand) => NothingDone
    /\ BothAllows

\* an admitted command of a module for public channels came in a direct
\* message: no module ran and nothing was queued
C25_Witness ==
    /\ Rejected /\ LastAdmitted
    /\ LastFound # 0 /\ dsp_registry[LastFound].scope = "Public"
    /\ LastCall.is_dm
    /\ NothingDone

\* C26: a text whose first token does not start with the command prefix
\* invokes no module, consumes no rate-limit slot and enqueues nothing
C26_NotACommand ==
    (Dispatched /\ ~LastIsCommand) =>
        /\ NothingDone
        /\ r_commands = LastCall.commands

\* the name of a command without the prefix reached a bot that has the
\* command and a rate limit, and nothing changed
C26_Witness ==
    /\ Dispatched /\ ~LastIsCommand
    /\ find_by_command(dsp_registry, FirstToken(LastCall.text)) # 0
    /\ r_max > 0
    /\ NothingDone
    /\ r_commands = LastCall.commands

\* ------------------------------------------------------------------------
\* Claims about bridge messages
\* ------------------------------------------------------------------------
\* the last bridge message handled had a channel MeshChannel::new accepts
ValidBridgeMessage == q_call # None /\ MeshChannelOk(q_call[1].msg.channel)

\* C27: every bridge-to-mesh message with a valid channel enqueues exactly
\* one outgoing Text message with the same text, Broadcast destination,
\* to_node = None, mesh_channel = channel, from_node = the local node id and
\* reply_id = None
C27_BridgeMessageBroadcast ==
    ValidBridgeMessage =>
        /\ Len(outgoing.log) = q_call[1].call + 1
        /\ outgoing.depth = Len(outgoing.queue)
        /\ LET m == outgoing.log[Len(outgoing.log)].msg
           IN  /\ m.kind = <<"Text">>
               /\ m.text = q_call[1].msg.text
               /\ m.destination = <<"Broadcast">>
               /\ m.to_node = None
               /\ m.mesh_channel = q_call[1].msg.channel
               /\ m.channel = q_call[1].msg.channel
               /\ m.from_node = local_node_id
               /\ m.reply_id = None

\* a bridge text longer than max_message_len on channel 2 is in the queue
\* as one message
C27_Witness ==
    /\ ValidBridgeMessage
    /\ q_call[1].msg.channel = 2
    /\ cfg_max_message_len > 0
    /\ Len(q_call[1].msg.text) > cfg_max_message_len
    /\ outgoing.queue # <<>>
    /\ outgoing.queue[Len(outgoing.queue)].text = q_call[1].msg.text


\* C34: every Text message in the outgoing queue, whatever path queued it,
\* has a text of at most max_message_len bytes
C34_QueuedTextWithinBudget ==
    \A i \in 1..Len(outgoing.queue) :
        outgoing.queue[i].kind = <<"Text">>
        => Len(outgoing.queue[i].text) <= cfg_max_message_len

\* ------------------------------------------------------------------------
\* claims on the per-node cooldown of the traceroute probes
\* ------------------------------------------------------------------------
\* the instants at which a target was marked
MarksOf(target) ==
    {tc_marks[i].at : i \in {j \in 1..Len(tc_marks) : tc_marks[j].target = target}}

\* the latest of a non-empty set of instants
Latest(instants) == CHOOSE t \in instants : \A u \in instants : u <= t

\* can_send answers true exactly when the target was never marked or the
\* cooldown has elapsed since its last mark
CanSendIffCooledDown ==
    \A target \in ProbeTargets :
        can_send(CoolingAt(traceroute, tc_now, tc_cfg.per_node_cooldown_secs), target)
        <=> \/ MarksOf(target) = {}
            \/ tc_now - Latest(MarksOf(target)) >= tc_cfg.per_node_cooldown_secs

\* two probes for one target are at least the cooldown apart
ProbesCooldownApart ==
    \A i, j \in 1..Len(tc_probes) :
        (i < j /\ tc_probes[i].msg.target_node = tc_probes[j].msg.target_node)
        => tc_probes[j].at - tc_probes[i].at >= tc_cfg.per_node_cooldown_secs

\* C29: can_send(target, cooldown) is true iff the target was never marked
\* or at least cooldown seconds have passed since its last mark, and no two
\* Traceroute probes for the same target are queued less than
\* per_node_cooldown_secs apart, on one connection or across reconnects
C29_ProbesRespectCooldown ==
    /\ CanSendIffCooledDown
    /\ ProbesCooldownApart

\* three probes for one target under a cooldown of 2 seconds, the second on
\* a later connection than the first, and the target is cooling down again
C29_Witness ==
    /\ tc_cfg.per_node_cooldown_secs = 2
    /\ Len(tc_probes) = 3
    /\ \A i \in 1..3 : tc_probes[i].msg.target_node = 2
    /\ tc_probes[1].conn < tc_probes[2].conn
    /\ tc_probes[2].at - tc_probes[1].at = 2
    /\ ~can_send(CoolingAt(traceroute, tc_now, 2), 2)

\* ------------------------------------------------------------------------
\* claims on the nodes table under handle_mesh_packet
\* ------------------------------------------------------------------------
\* the senders of the decoded packets handled so far
HandledSources ==
    (IF in_last # None /\ in_last[1].p.decoded THEN {in_last[1].p.from} ELSE {})
    \cup (IF t_last # None THEN {t_last[1].packet.from} ELSE {})
    \cup {tr_log[i].p.from : i \in 1..Len(tr_log)}

\* C30 as stated: after the incoming handler has processed a decoded mesh
\* packet from node X, of any port, X has a row in the nodes table
C30_SourceHasRow == HandledSources \subseteq db_nodes

\* a packet was handled in this step
PacketHandled ==
    in_last' # in_last \/ t_last' # t_last \/ tr_log' # tr_log

\* C30: handling a mesh packet, of any port, neither adds a row to the nodes
\* table nor removes one: its source has a row afterwards exactly when it
\* had one before, and a position is stored only for a source with a row
C30_PacketsAddNoRow ==
    [][PacketHandled =>
          /\ db_nodes' = db_nodes
          /\ DOMAIN db_positions' = db_nodes]_vars

\* a position packet and a traceroute packet of node 3, which has no row,
\* a text, and a position packet of node 2, which has a row, were handled:
\* the table holds the row of node 2 alone, now with the position
C30_Witness ==
    /\ db_nodes = {2}
    /\ db_positions[2] = Some(<<25, 121>>)
    /\ in_last # None /\ in_last[1].p.portnum = "PositionApp"
    /\ in_last[1].p.from = 3 /\ in_last[1].row # None
    /\ in_last[1].p.payload # None
    /\ in_last[1].p.payload[1].latitude_i = Some(25)
    /\ t_last # None
    /\ \E i \in 1..Len(tr_log) : tr_log[i].p.from \notin db_nodes

\* ------------------------------------------------------------------------
\* claims on the session key
\* ------------------------------------------------------------------------
\* the value of a string of hex digits
HexValue(s) ==
    LET DigitValue(c) == (CHOOSE d \in 1..16 : HexDigits[d] = c) - 1
        F[i \in 0..Len(s)] == IF i = 0 THEN 0 ELSE F[i - 1] * 16 + DigitValue(s[i])
    IN  F[Len(s)]

\* "req:0000aaaa:0000bbbb:"
S4KeyPrefix ==
    <<"r", "e", "q", ":", "0", "0", "0", "0", "a", "a", "a", "a", ":",
      "0", "0", "0", "0", "b", "b", "b", "b", ":">>

\* the call of the scenario: src 0xAAAA, dst 0xBBBB, request id 100
S4Call ==
    key_args = [src_node |-> 43690, dst_node |-> Some(48059), request_mesh_id |-> 100]

\* C31 as stated: the key of src 0xAAAA, dst 0xBBBB, request id 100 is
\* "req:0000aaaa:0000bbbb:100"
C31_KeyWithPlainId ==
    (key_result # None /\ S4Call)
    => key_result[1] = S4KeyPrefix \o <<"1", "0", "0">>

\* C31: the session key is req:{src}:{dst or "broadcast"}:{request_mesh_id}
\* with src, dst and the request mesh id each as 8 lower-case hex digits,
\* so that src 0xAAAA, dst 0xBBBB, request id 100 gives
\* "req:0000aaaa:0000bbbb:00000064"
C31_KeyWithHexId ==
    key_result # None =>
        LET key == key_result[1]
            n == Len(key)
            dst == SubSeq(key, 14, n - 9)
        IN  /\ SubSeq(key, 1, 4) = <<"r", "e", "q", ":">>
            /\ HexValue(SubSeq(key, 5, 12)) = key_args.src_node
            /\ key[13] = ":"
            /\ IF key_args.dst_node = None
               THEN dst = <<"b", "r", "o", "a", "d", "c", "a", "s", "t">>
               ELSE Len(dst) = 8 /\ HexValue(dst) = key_args.dst_node[1]
            /\ key[n - 8] = ":"
            /\ HexValue(SubSeq(key, n - 7, n)) = key_args.request_mesh_id
            /\ S4Call => key = S4KeyPrefix \o <<"0", "0", "0", "0", "0", "0", "6", "4">>

\* the key of the scenario was computed
C31_Witness ==
    /\ S4Call
    /\ key_result # None
    /\ Len(key_result[1]) = 30

\* ------------------------------------------------------------------------
\* claims on the closing of the bridge channel
\* ------------------------------------------------------------------------
\* the messages of the bridges pushed so far
BridgePushes ==
    Cardinality({i \in 1..Len(outgoing.log) : outgoing.log[i].src.from = "bridge"})

\* the step is the bridge branch with None
IsBridgeNone == l_bridge_none' = l_bridge_none + 1

\* the loop runs and recv of the bridge channel has given None
BridgeDisabled == l_pc = "loop" /\ l_bridge_none > 0

\* C32: when recv of the bridge channel yields None the loop goes on with
\* the bridge branch disabled: the step leaves the loop running and changes
\* nothing but the flag, so that the queue, the startup state and the
\* deadlines of the timers stay as they are, and the branch is not taken
\* again on this connection, neither with a message nor with None
C32_BridgeCloseDisablesBranch ==
    /\ [][IsBridgeNone
            => /\ l_pc' = "loop"
               /\ ~bridge_active'
               /\ UNCHANGED <<queueVars, startup_state, db_nodes, grace_timer,
                              grace_period_done, send_timer, l_conn>>]_vars
    /\ [][(BridgeDisabled /\ l_conn' = l_conn)
            => /\ l_bridge_none' = l_bridge_none
               /\ BridgePushes' = BridgePushes]_vars
    /\ [](l_bridge_none <= 1)

\* after the bridge channel closed on the second connection, a NodeInfo
\* frame was handled, the grace timer fired and a message was sent
C32_Witness ==
    /\ BridgeDisabled
    /\ l_conn.id = 2
    /\ Len(l_rx) >= 1
    /\ grace_period_done
    /\ l_last_send # None /\ l_last_send[1].conn = 2

\* ------------------------------------------------------------------------
\* claims on a radio send that fails
\* ------------------------------------------------------------------------
\* the step is a radio send that fails
IsFailedSend ==
    /\ Len(l_send_results') = Len(l_send_results) + 1
    /\ ~l_send_results'[Len(l_send_results')]

\* C33: when a radio send fails the popped message is dropped: it is not
\* put back and nothing else is pushed, the queue afterwards holds the
\* remaining messages in their order with the depth decreased by one, the
\* loop goes on with the send timer set anew, and the send after it takes
\* the message that was next in the queue
C33_FailedSendDropsMessage ==
    /\ [][IsFailedSend
            => /\ outgoing.queue # <<>>
               /\ outgoing'.queue = Tail(outgoing.queue)
               /\ outgoing'.depth = outgoing.depth - 1
               /\ outgoing'.log = outgoing.log
               /\ q_popped' = Append(q_popped, Head(outgoing.queue))
               /\ l_pc' = "loop"
               /\ send_timer' = clock' + SendDelay]_vars
    /\ [][Len(l_send_results') = Len(l_send_results) + 1
            => /\ outgoing.queue # <<>>
               /\ q_popped' = Append(q_popped, Head(outgoing.queue))]_vars
    /\ [](Len(l_send_results) = Len(q_popped))

\* on one connection a send failed and the message behind it was sent on
\* the next fire of the timer, while a third message waits
C33_Witness ==
    /\ Len(l_send_results) = 2
    /\ ~l_send_results[1] /\ l_send_results[2]
    /\ l_conn.id = 1
    /\ Len(outgoing.log) >= 3
    /\ q_popped = <<outgoing.log[1].msg, outgoing.log[2].msg>>
    /\ outgoing.queue # <<>>
    /\ outgoing.depth = Len(outgoing.queue)

\* ------------------------------------------------------------------------
\* claims on the deferred events
\* ------------------------------------------------------------------------
\* the nodes whose NodeDiscovered event is deferred
DeferredSet(st) ==
    {st.deferred_events[i].node_id : i \in 1..Len(st.deferred_events)}

\* the last step dispatched the event of node n, and n has a row
DispatchedAndUpserted(n) ==
    /\ \E i \in 1..Len(l_trace) : l_trace[i] = <<"dispatch", n>>
    /\ n \in db_nodes

\* the run ends here: the grace timer is due after the last tick of the
\* clock, or the last connection is closed
RunEnds ==
    \/ l_pc = "loop" /\ grace_timer > MaxLoopTime
    \/ l_pc = "reconnecting" /\ l_conn.id >= MaxConnections

\* C35 as stated: every NodeDiscovered event deferred during a grace period
\* is eventually dispatched and its node upserted, also when the connection
\* closes and is made again before the grace timer has fired
C35_DeferredEventuallyDispatched ==
    \A n \in MeshNodes :
        (n \in DeferredSet(startup_state)) ~> (DispatchedAndUpserted(n) \/ RunEnds)

\* C35: every NodeDiscovered event deferred during the grace period of a
\* connection is dispatched and its node upserted when the grace timer of
\* that connection fires, unless the connection closes before; the events
\* still deferred then are discarded when the next connection starts, and
\* a deferred event leaves the list in no other way
C35_DeferredDispatchedOrReset ==
    /\ \A n \in MeshNodes :
           (l_pc = "loop" /\ n \in DeferredSet(startup_state))
               ~> (DispatchedAndUpserted(n) \/ l_pc = "reconnecting" \/ RunEnds)
    /\ [][\A n \in DeferredSet(startup_state) \ DeferredSet(startup_state') :
              \/ IsGraceFire /\ \E i \in 1..Len(l_trace') : l_trace'[i] = <<"dispatch", n>>
              \/ l_conn'.id = l_conn.id + 1 /\ startup_state'.deferred_events = <<>>]_vars
    /\ [][l_conn'.id = l_conn.id + 1 => startup_state'.deferred_events = <<>>]_vars

\* on the second connection the grace timer has fired and dispatched the
\* event of node 2, after the event of node 3, deferred on the first
\* connection, was discarded: node 3 has no row
C35_Witness ==
    /\ l_conn.id = 2
    /\ grace_period_done
    /\ l_trace = <<<<"dispatch", 2>>, <<"upsert", 2>>>>
    /\ 3 \notin db_nodes
    /\ l_rx = <<[node |-> 2, grace |-> TRUE]>>

\* the nodes whose event the step dispatched
DispatchedBy(trace) ==
    {n \in MeshNodes : \E i \in 1..Len(trace) : trace[i] = <<"dispatch", n>>}

\* C36: NodeDiscovered events reach the modules in the order their NodeInfo
\* frames were received: a NodeInfo frame handled by the packet branch has
\* its event dispatched at once only when no earlier event is still
\* deferred, whichever ready branch the loop takes first
C36_DispatchInArrivalOrder ==
    [][IsNodeInfo /\ DispatchedBy(l_trace') # {}
           => startup_state.deferred_events = <<>>]_vars

====
